---- MODULE Spec2Model ----
(***************************************************************************)
(* Model of the agent orchestration engine of                              *)
(* ai-coding-agent-langgraph-flask-docker.                                 *)
(*                                                                         *)
(*   src/agent/worker.py          process_task_with_langgraph: tool sets,  *)
(*                                graph wiring, graph execution, result    *)
(*                                scan; run_agent_cycle                    *)
(*   src/agent/nodes/coder.py     the specialist node and its retry ladder *)
(*   src/agent/utils.py           sanitize_response                        *)
(*   src/agent/mcp_adapter.py     McpServerClient                          *)
(*   src/agent/system_mappings.py parse_trello_response                    *)
(*   src/agent/task_connector.py  TaskAppConnector                         *)
(*   src/agent/local_tools.py     read_file, write_to_file                 *)
(*                                                                         *)
(* The router, bugfixer, analyst and correction nodes are imported by      *)
(* worker.py but their files are not part of the sources; they are         *)
(* modelled from the specification (sections 4.2, 4.3, 4.5 and 9).         *)
(***************************************************************************)
EXTENDS Integers, Sequences, FiniteSets, TLC

\* ------------------------------------------------------------------ bounds
\* worker.py:150 passes {"recursion_limit": 50} to ainvoke.  The loop that the
\* limit cuts is the same for every value; the model runs it with a small one.
recursion_limit == 5

\* Longest list of invocations in the inputs of sanitize_response (SanSpec).
MaxToolCalls == 2

\* Longest list of content blocks in the result of a capability server.
MaxBlocks == 2

\* Longest conversation handed to the result scan alone (ScanSpec).
MaxConversation == 2

\* Most cards in one list of cards handed to the response parser (ParseSpec).
MaxCards == 2

\* Most lists of a board handed to the response parser (ParseSpec).
MaxGroups == 2

\* Most tasks the TaskApp answers with (ConnectorSpec).
MaxTasks == 2

\* Most names in a filepath handed to a file tool (FileSpec).
MaxNames == 3

\* Most slashes a filepath handed to a file tool begins with (FileSpec).
MaxSlashes == 2

\* ------------------------------------------------------- program constants
\* coder.py:49   for attempt in range(3)
MAX_ATTEMPTS == 3

\* utils.py:27   len(name) < 64
NAME_LIMIT == 64

\* worker.py:158
NO_SUMMARY == "Agent finished without a summary."

\* worker.py:157  call["args"].get("summary", "Task completed.")
DEFAULT_SUMMARY == "Task completed."

\* A key that a dict does not hold: "summary" in the args of an invocation,
\* "next_step" in the state.
ABSENT == "<absent>"

VARIABLES
    messages,             \* AgentState["messages"]: the conversation
    next_step,            \* AgentState["next_step"]: the classification
    classification,       \* router node: the answer of the backend it classified
    node,                 \* the graph node that runs next ("END": the graph ended)
    step,                 \* graph steps taken so far
    status,               \* of process_task_with_langgraph: running / returned / raised
    error,                \* the exception it raised, "" if none
    result,               \* the text it returned, "" if none
    attempt,              \* coder_node: the loop variable
    current_tool_choice,  \* coder_node: "auto" or "any"
    extra,                \* coder_node: forcing pairs appended to current_messages
    llm_calls,            \* the backend calls of the specialist turn in progress
    returned,             \* the message the specialist node returned, not yet applied
    git_tools,            \* capabilities discovered on the git server
    task_tools,           \* capabilities discovered on the task server
    analyst_tools,        \* worker.py:71
    coder_tools,          \* worker.py:72
    bound,                \* whether the tool sets were composed (worker.py:59-82)
    response,             \* sanitize_response: its argument
    sanitized,            \* sanitize_response: its return value
    mcp,                  \* the McpServerClient objects git_mcp and task_mcp
    request,              \* what is asked of a client, and what its server answers
    op,                   \* the last call of a McpServerClient method and its outcome
    pc,                   \* run_agent_cycle: the statement that runs next
    cfg,                  \* the stored AgentConfig, the key and the work directory
    raw_tasks,            \* run_agent_cycle_async: the answer of the polling tool
    task,                 \* run_agent_cycle_async: the value of the response parser
    exc,                  \* the exception in flight, "" if none
    caught,               \* the exception the except clause of line 254 caught
    task_calls,           \* the task_mcp.call_tool calls of the cycle
    connector,            \* the TaskAppConnector object
    all_tasks,            \* what the TaskApp holds for the project and the user
    conn_op,              \* the last call of a TaskAppConnector method and its outcome
    file_call,            \* read_file / write_to_file: the call and the file system
    file_op               \* read_file / write_to_file: what the call did

vars == <<messages, next_step, classification, node, step, status, error, result, attempt,
          current_tool_choice, extra, llm_calls, returned, git_tools, task_tools,
          analyst_tools, coder_tools, bound, response, sanitized, mcp, request, op,
          pc, cfg, raw_tasks, task, exc, caught, task_calls,
          connector, all_tasks, conn_op, file_call, file_op>>

graphVars == <<messages, next_step, classification, node, step, status, error, result>>
nodeVars == <<attempt, current_tool_choice, extra, llm_calls, returned>>
toolVars == <<git_tools, task_tools, analyst_tools, coder_tools, bound>>
sanVars == <<response, sanitized>>
adapterVars == <<mcp, request, op>>
cycleVars == <<pc, cfg, raw_tasks, task, exc, caught, task_calls>>
connVars == <<connector, all_tasks, conn_op>>
fileVars == <<file_call, file_op>>

\* ---------------------------------------------------------------- messages
Call(name, id, summary) == [name |-> name, id |-> id, summary |-> summary]

HumanMessage(c) ==
    [type |-> "human", content |-> c, tool_calls |-> <<>>, tool_call_id |-> ""]

AIMessage(c, calls) ==
    [type |-> "ai", content |-> c, tool_calls |-> calls, tool_call_id |-> ""]

ToolMessage(c, id) ==
    [type |-> "tool", content |-> c, tool_calls |-> <<>>, tool_call_id |-> id]

SystemMessage(c) ==
    [type |-> "system", content |-> c, tool_calls |-> <<>>, tool_call_id |-> ""]

\* No message (Python's None).
NONE == [type |-> "none", content |-> "", tool_calls |-> <<>>, tool_call_id |-> ""]

HasFinish(calls) == \E i \in DOMAIN calls : calls[i].name = "finish_task"

\* ------------------------------------------------------- invocation names
\* A name is a string; TLC cannot look inside a string, so Chars gives the
\* characters of each name of the model as runs of one character class:
\*   "id"  a letter, digit, underscore or hyphen     [a-zA-Z0-9_-]
\*   "nl"  a line feed
\*   "x"   any other character (space, punctuation)
Run(c, n) == [c |-> c, n |-> n]

BAD_NAME == "Hello, I think we should..."
NAME_63 == "a * 63"
NAME_64 == "a * 64"
NAME_65 == "a * 65"
NAME_70 == "a * 70"
NAME_NL == "finish_task<LF>"

Chars(name) ==
    CASE name = "" -> <<>>
      [] name = "finish_task" -> <<Run("id", 11)>>
      [] name = "read_file" -> <<Run("id", 9)>>
      [] name = "list_files" -> <<Run("id", 10)>>
      [] name = "write_to_file" -> <<Run("id", 13)>>
      [] name = "git_push_origin" -> <<Run("id", 15)>>
      [] name = BAD_NAME ->
            <<Run("id", 5), Run("x", 2), Run("id", 1), Run("x", 1), Run("id", 5),
              Run("x", 1), Run("id", 2), Run("x", 1), Run("id", 6), Run("x", 3)>>
      [] name = NAME_63 -> <<Run("id", 63)>>
      [] name = NAME_64 -> <<Run("id", 64)>>
      [] name = NAME_65 -> <<Run("id", 65)>>
      [] name = NAME_70 -> <<Run("id", 70)>>
      [] name = NAME_NL -> <<Run("id", 11), Run("nl", 1)>>

RECURSIVE RunsLen(_)
RunsLen(runs) == IF runs = <<>> THEN 0 ELSE Head(runs).n + RunsLen(Tail(runs))

\* len(name)
StrLen(name) == RunsLen(Chars(name))

\* utils.py:22,27  re.compile(r"^[a-zA-Z0-9_-]+$").match(name): one or more
\* identifier characters from the start, then the end of the string; Python's
\* "$" also matches just before a line feed that ends the string.
name_pattern_match(name) ==
    LET runs == Chars(name) IN
    /\ Len(runs) >= 1
    /\ runs[1].c = "id"
    /\ \/ Len(runs) = 1
       \/ Len(runs) = 2 /\ runs[2].c = "nl" /\ runs[2].n = 1

\* utils.py:27  the test that keeps an invocation
keep_call(tc) == name_pattern_match(tc.name) /\ StrLen(tc.name) < NAME_LIMIT

\* utils.py:24-29  the loop that collects valid_tools
RECURSIVE valid_tools(_)
valid_tools(calls) ==
    IF calls = <<>> THEN <<>>
    ELSE IF keep_call(Head(calls))
         THEN <<Head(calls)>> \o valid_tools(Tail(calls))
         ELSE valid_tools(Tail(calls))

\* utils.py:11-34
sanitize_response(r) ==
    IF r.type # "ai" \/ r.tool_calls = <<>>
    THEN r
    ELSE [r EXCEPT !.tool_calls = valid_tools(r.tool_calls)]

\* --------------------------------------------------------------- tool sets
\* worker.py:62-69.  The lists are modelled as sets of capability names:
\* binding and lookup go by name.
read_tools == {"list_files", "read_file"}

write_tools == {"git_create_branch", "write_to_file", "git_push_origin", "create_github_pr"}

base_tools == {"log_thought", "finish_task"}

\* What the git server (worker.py:205-209, mcp_server_git) and the task server
\* (worker.py:210-212, system_mappings.py:55-61) can announce; the task server's
\* capabilities are the ones worker.py itself calls (lines 230, 239, 252).
GIT_SERVER_TOOLS == {"git_status", "git_diff", "git_add", "git_commit"}

TASK_SERVER_TOOLS == {"read_board", "add_comment_to_card", "move_card_to_list"}

\* worker.py:59
all_mcp_tools(gits, tasks) == gits \cup tasks

\* worker.py:71
analyst_tools_of(gits, tasks) == all_mcp_tools(gits, tasks) \cup read_tools \cup base_tools

\* worker.py:72
coder_tools_of(gits, tasks) ==
    all_mcp_tools(gits, tasks) \cup read_tools \cup write_tools \cup base_tools

\* worker.py:59-82  the tool sets are composed and bound to the nodes
BindTools ==
    /\ ~bound
    /\ bound' = TRUE
    /\ analyst_tools' = analyst_tools_of(git_tools, task_tools)
    /\ coder_tools' = coder_tools_of(git_tools, task_tools)
    /\ UNCHANGED <<git_tools, task_tools>>
    /\ UNCHANGED <<graphVars, nodeVars, sanVars, adapterVars, cycleVars, connVars, fileVars>>

\* ------------------------------------------------------- the model backend
\* What one backend call can produce: a turn with or without text and with a
\* list of invocations, or an exception.  Invocation ids are the backend's.
CallId(i) == CASE i = 1 -> "call_1" [] i = 2 -> "call_2" [] i = 3 -> "call_3"

MODEL_SUMMARY == "Summary written by the model"

RECURSIVE MakeCalls(_, _)
MakeCalls(names, i) ==
    IF i > Len(names) THEN <<>>
    ELSE <<Call(names[i], CallId(i),
                IF names[i] = "finish_task" THEN MODEL_SUMMARY ELSE ABSENT)>>
         \o MakeCalls(names, i + 1)

ModelTexts == {"", "Some text"}

ModelCallNames ==
    { <<>>,
      <<"read_file">>,
      <<"read_file", "write_to_file">>,
      <<"finish_task">>,
      <<"write_to_file", "finish_task">>,
      <<"finish_task", "read_file">>,
      <<BAD_NAME>>,
      <<BAD_NAME, "read_file">> }

\* A summary of 4500 characters.
LONG_SUMMARY == "x * 4500"

ModelResponses ==
    {AIMessage(t, MakeCalls(n, 1)) : t \in ModelTexts, n \in ModelCallNames}
        \cup {AIMessage("", <<Call("finish_task", "call_1", LONG_SUMMARY)>>)}

\* The backend call raised.
RAISED == [type |-> "raised", content |-> "", tool_calls |-> <<>>, tool_call_id |-> ""]

BackendOutcomes == ModelResponses \cup {RAISED}

\* ------------------------------------------------------ the specialist node
Specialists == {"coder", "bugfixer", "analyst"}

\* coder.py:54
has_content(r) == r.content # ""

\* coder.py:55
has_tool_calls(r) == r.tool_calls # <<>>

\* Fault: every response is returned, a degenerate one too.
actionable_always(r) == TRUE

\* coder.py:57
actionable(r) == has_content(r) \/ has_tool_calls(r)

\* Fault: range(2).
loop_continues_twice(done) == done < 2

\* coder.py:49  for attempt in range(3): whether the loop runs once more
loop_continues(done) == done < MAX_ATTEMPTS

\* Fault: the node goes on with the locals its previous call left.
locals_kept(a, choice, pairs) ==
    [attempt |-> a, current_tool_choice |-> choice, extra |-> pairs]

\* coder.py:45-49  the locals of coder_node are created by every call of the
\* node, whatever an earlier call left: current_messages is built from the
\* state, current_tool_choice is "auto", range(3) starts at 0
locals_on_entry(a, choice, pairs) ==
    [attempt |-> 0, current_tool_choice |-> "auto", extra |-> 0]

\* coder.py:44  sys_msg
SYS_MSG == "CODER_SYSTEM_PROMPT, Repo: repo_url, REMINDER: Create a branch first!"

\* coder.py:69  the turn put into the model's mouth
READY == "I have analyzed the files and planned the changes. I am ready to write the code."

\* coder.py:74  the forcing directive
FORCE == "Good. STOP THINKING. Call 'write_to_file' NOW with the complete content."

\* coder.py:67-76  what the appends behind the degenerate responses so far
\* have put at the end of current_messages
RECURSIVE forcing(_)
forcing(pairs) ==
    IF pairs = 0 THEN <<>>
    ELSE forcing(pairs - 1) \o <<AIMessage(READY, <<>>), HumanMessage(FORCE)>>

\* coder.py:45, 67-76  the list sent to the backend: a new list made of the
\* system message and the conversation of the state, and the forcing pairs
\* appended to that list
current_messages(msgs, pairs) == <<SystemMessage(SYS_MSG)>> \o msgs \o forcing(pairs)

\* Fault: the node returns the list it sent to the backend and the response.
returned_messages_all(current, r) == current \o <<r>>

\* coder.py:61, 83-97  the value of "messages" in what the node returns: a
\* list of one message, whatever current_messages holds
returned_messages(current, r) == <<r>>

\* coder.py:83-97  the fallback turn
STUCK ==
    AIMessage("Stuck.", <<Call("finish_task", "call_emergency", "Agent stuck.")>>)

\* The analyst node answers in text (prompts.py:64); a text answer without
\* invocations ends the execution (specification, section 9), which the exit
\* check of worker.py allows only for a finish_task invocation: the node hands
\* the text over as the summary of one.
analyst_answer(r) ==
    IF r.tool_calls = <<>>
    THEN AIMessage(r.content, <<Call("finish_task", "call_analyst", r.content)>>)
    ELSE r

\* coder.py:61  return {"messages": [response]}; the three specialist nodes are
\* one node with a role (specification, section 4.3), coder.py is its source.
node_return(role, r) == IF role = "analyst" THEN analyst_answer(r) ELSE r

Outcome(o) ==
    IF o = RAISED THEN "raised" ELSE IF actionable(o) THEN "turn" ELSE "empty"

\* Fault: the mode is never escalated.
next_tool_choice_kept(o, choice) == choice

\* Fault: an exception escalates the mode as an empty response does.
next_tool_choice_any(o, choice) == "any"

\* coder.py:66, 78-79  the mode of the next attempt: "any" behind an empty
\* response, unchanged behind an exception
next_tool_choice(o, choice) == IF o = RAISED THEN choice ELSE "any"

\* coder.py:67-76, 78-79  the forcing pairs (a turn put into the model's mouth
\* and the directive to act) behind the conversation in current_messages
next_extra(o, pairs) == IF o = RAISED THEN pairs ELSE pairs + 1

\* coder.py:49-97  one pass of the loop body: one backend call and what
\* follows it up to the next call or to the node's return.
SpecialistCall ==
    /\ bound
    /\ status = "running"
    /\ node \in Specialists
    /\ returned = NONE
    /\ step < recursion_limit
    /\ loop_continues(attempt)
    /\ \E o \in BackendOutcomes :
        /\ llm_calls' = Append(llm_calls,
                               [tool_choice |-> current_tool_choice,
                                input |-> current_messages(messages, extra),
                                extra |-> extra,
                                outcome |-> Outcome(o)])
        /\ IF o # RAISED /\ actionable(o)
           THEN /\ returned' = node_return(node, o)
                /\ UNCHANGED <<attempt, current_tool_choice, extra>>
           ELSE /\ attempt' = attempt + 1
                /\ current_tool_choice' = next_tool_choice(o, current_tool_choice)
                /\ extra' = next_extra(o, extra)
                /\ returned' = IF loop_continues(attempt + 1) THEN NONE ELSE STUCK
    /\ UNCHANGED <<graphVars, toolVars, sanVars, adapterVars, cycleVars, connVars, fileVars>>

\* ---------------------------------------------------------- the orchestrator
\* str.lower() on the classifications of the model; a string that is not
\* listed holds no upper-case letter
Lower(s) ==
    CASE s \in {"CODER", "Coder"} -> "coder"
      [] s \in {"BUGFIXER", "BugFixer"} -> "bugfixer"
      [] s \in {"ANALYST", "Analyst"} -> "analyst"
      [] s = "CODER " -> "coder "
      [] s = "TESTER" -> "tester"
      [] s \in {"OPEN", "Open"} -> "open"
      [] s = "Closed" -> "closed"
      [] s = "I am not sure." -> "i am not sure."
      [] OTHER -> s

\* dict.get(key, default)
state_get(value, default) == IF value = ABSENT THEN default ELSE value

\* Fault: the step is returned without the fallback of line 98.
route_after_router_no_default(ns) == Lower(state_get(ns, "coder"))

\* worker.py:94-98
route_after_router(ns) ==
    LET s == Lower(state_get(ns, "coder")) IN
    IF s \in {"coder", "bugfixer", "analyst"} THEN s ELSE "coder"

\* Fault: a turn without invocations ends the execution.
check_exit_text_ends(msgs) ==
    LET last_msg == msgs[Len(msgs)] IN
    IF last_msg.type # "ai" THEN "correction"
    ELSE IF last_msg.tool_calls = <<>> \/ HasFinish(last_msg.tool_calls) THEN "END"
    ELSE "tools"

\* Fault: invocations that are not terminal are answered by a directive
\* instead of being executed.
check_exit_skips_tools(msgs) ==
    LET last_msg == msgs[Len(msgs)] IN
    IF last_msg.type = "ai" /\ HasFinish(last_msg.tool_calls) THEN "END" ELSE "correction"

\* Fault: the execution ends only on a turn whose invocations are all
\* finish_task.
check_exit_finish_alone(msgs) ==
    LET last_msg == msgs[Len(msgs)] IN
    IF last_msg.type # "ai" \/ last_msg.tool_calls = <<>> THEN "correction"
    ELSE IF \A i \in DOMAIN last_msg.tool_calls : last_msg.tool_calls[i].name = "finish_task"
    THEN "END"
    ELSE "tools"

\* worker.py:106-112
check_exit(msgs) ==
    LET last_msg == msgs[Len(msgs)] IN
    IF last_msg.type # "ai" \/ last_msg.tool_calls = <<>> THEN "correction"
    ELSE IF HasFinish(last_msg.tool_calls) THEN "END"
    ELSE "tools"

\* Fault: the classification is returned without lower().
route_back_as_stored(ns) == ns

\* Fault: control goes back to the coder, whatever role was selected.
route_back_to_coder(ns) == "coder"

\* worker.py:124-125
route_back(ns) == Lower(state_get(ns, "CODER"))

\* worker.py:100-104, 127-136  the path map of the router, of correction and of tools
ROLE_EDGES == {"coder", "bugfixer", "analyst"}

\* Fault: no specialist has a successor registered for "correction".
exit_edges_no_correction(role) == {"tools", "END"}

\* worker.py:114-122  the path maps of the three specialists
exit_edges(role) ==
    IF role = "analyst" THEN {"tools", "END"} ELSE {"tools", "correction", "END"}

\* A conditional edge looks its key up in the path map; a key the map does not
\* hold has no destination, and the lookup raises KeyError.
KEY_ERROR == "KeyError"

follow(edges, key) == IF key \in edges THEN key ELSE KEY_ERROR

\* worker.py:153-158  scan the conversation from the end for a finish_task
RECURSIVE first_finish(_)
first_finish(calls) ==
    IF Head(calls).name = "finish_task" THEN Head(calls) ELSE first_finish(Tail(calls))

RECURSIVE scan_summary(_, _)
scan_summary(msgs, i) ==
    IF i = 0 THEN NO_SUMMARY
    ELSE IF msgs[i].type = "ai" /\ HasFinish(msgs[i].tool_calls)
         THEN LET call == first_finish(msgs[i].tool_calls) IN
              IF call.summary = ABSENT THEN DEFAULT_SUMMARY ELSE call.summary
         ELSE scan_summary(msgs, i - 1)

\* Fault: the conversation is scanned from its start.
RECURSIVE scan_forward(_, _)
scan_forward(msgs, i) ==
    IF i > Len(msgs) THEN NO_SUMMARY
    ELSE IF msgs[i].type = "ai" /\ HasFinish(msgs[i].tool_calls)
         THEN LET call == first_finish(msgs[i].tool_calls) IN
              IF call.summary = ABSENT THEN DEFAULT_SUMMARY ELSE call.summary
         ELSE scan_forward(msgs, i + 1)

final_summary_forward(msgs) == scan_forward(msgs, 1)

final_summary(msgs) == scan_summary(msgs, Len(msgs))

\* len(output) of the texts an execution can return
len(text) ==
    CASE text = LONG_SUMMARY -> 4500
      [] text = MODEL_SUMMARY -> 28
      [] text = "Some text" -> 9
      [] text = "Agent stuck." -> 12
      [] text = DEFAULT_SUMMARY -> 15
      [] text = NO_SUMMARY -> 33

\* Fault: what a node returns takes the place of the conversation.
add_messages_replace(left, right) == right

\* AgentState["messages"] (agent/state.py): what a node returns under
\* "messages" is put behind the conversation (specification, section 3)
add_messages(left, right) == left \o right

\* worker.py:141-158  the graph moves to dest after a node wrote msgs: to the
\* next node, to its end (ainvoke returns and the result is extracted), or to
\* the exception of a failed edge lookup, which ainvoke raises.
Advance(msgs, dest) ==
    /\ messages' = msgs
    /\ step' = step + 1
    /\ node' = dest
    /\ status' = CASE dest = "END" -> "returned"
                   [] dest = KEY_ERROR -> "raised"
                   [] OTHER -> "running"
    /\ error' = IF dest = KEY_ERROR THEN KEY_ERROR ELSE ""
    /\ result' = IF dest = "END" THEN final_summary(msgs) ELSE ""

\* The router node asks the backend for one of three role names and stores the
\* role; an answer it cannot read, or none, is stored as CODER (specification,
\* section 4.2).
CLASSIFICATIONS == {"CODER", "BUGFIXER", "ANALYST"}

ROUTER_ANSWERS == CLASSIFICATIONS \cup {"", "I am not sure."}

classify(answer) == IF answer \in CLASSIFICATIONS THEN answer ELSE "CODER"

Router ==
    /\ bound
    /\ status = "running"
    /\ node = "router"
    /\ step < recursion_limit
    /\ \E answer \in ROUTER_ANSWERS :
        /\ classification' = answer
        /\ next_step' = classify(answer)
        /\ Advance(messages, follow(ROLE_EDGES, route_after_router(classify(answer))))
    /\ UNCHANGED <<nodeVars, toolVars, sanVars, adapterVars, cycleVars, connVars, fileVars>>

\* The specialist node has returned: its message is appended to the
\* conversation (coder.py:61, 83-97) and check_exit picks the next node
\* (worker.py:106-122).
SpecialistReturn ==
    /\ status = "running"
    /\ node \in Specialists
    /\ returned # NONE
    /\ LET msgs == add_messages(messages,
                                returned_messages(current_messages(messages, extra),
                                                  returned)) IN
       Advance(msgs, follow(exit_edges(node), check_exit(msgs)))
    /\ LET locals == locals_on_entry(attempt, current_tool_choice, extra) IN
        /\ attempt' = locals.attempt
        /\ current_tool_choice' = locals.current_tool_choice
        /\ extra' = locals.extra
    /\ llm_calls' = <<>>
    /\ returned' = NONE
    /\ UNCHANGED <<next_step, classification, toolVars, sanVars, adapterVars, cycleVars, connVars, fileVars>>

\* worker.py:82  ToolNode(coder_tools): the result of one invocation
tool_result(tc) ==
    ToolMessage(IF tc.name \in coder_tools THEN "ok"
                ELSE "Error: not a valid tool", tc.id)

\* Fault: the results are appended last invocation first.
RECURSIVE tool_messages_reversed(_)
tool_messages_reversed(calls) ==
    IF calls = <<>> THEN <<>>
    ELSE tool_messages_reversed(Tail(calls)) \o <<tool_result(Head(calls))>>

\* worker.py:82  ToolNode: one ToolMessage per invocation of the last
\* message, in the order of the invocations
RECURSIVE tool_messages(_)
tool_messages(calls) ==
    IF calls = <<>> THEN <<>>
    ELSE <<tool_result(Head(calls))>> \o tool_messages(Tail(calls))

\* worker.py:82, 90, 132-136
Tools ==
    /\ status = "running"
    /\ node = "tools"
    /\ step < recursion_limit
    /\ Advance(add_messages(messages, tool_messages(messages[Len(messages)].tool_calls)),
               follow(ROLE_EDGES, route_back(next_step)))
    /\ UNCHANGED <<next_step, classification, nodeVars, toolVars, sanVars, adapterVars, cycleVars, connVars, fileVars>>

\* The correction node appends its directive (specification, section 4.5);
\* worker.py:127-131 routes back.
DIRECTIVE == "Stop planning, act now."

Correction ==
    /\ status = "running"
    /\ node = "correction"
    /\ step < recursion_limit
    /\ Advance(add_messages(messages, <<HumanMessage(DIRECTIVE)>>),
               follow(ROLE_EDGES, route_back(next_step)))
    /\ UNCHANGED <<next_step, classification, nodeVars, toolVars, sanVars, adapterVars, cycleVars, connVars, fileVars>>

\* worker.py:141-151  the graph has taken recursion_limit steps and a node is
\* still due: ainvoke raises GraphRecursionError, lines 153-158 do not run.
RecursionLimit ==
    /\ status = "running"
    /\ node # "END"
    /\ returned = NONE
    /\ step >= recursion_limit
    /\ status' = "raised"
    /\ error' = "GraphRecursionError"
    /\ UNCHANGED <<messages, next_step, classification, node, step, result>>
    /\ UNCHANGED <<nodeVars, toolVars, sanVars, adapterVars, cycleVars, connVars, fileVars>>

\* ------------------------------------------------------- sanitize_response
\* utils.py:11-34 applied to one argument
Sanitize ==
    /\ sanitized = NONE
    /\ response # NONE
    /\ sanitized' = sanitize_response(response)
    /\ UNCHANGED <<response, graphVars, nodeVars, toolVars, adapterVars, cycleVars, connVars, fileVars>>

\* --------------------------------------------------- the capability adapter
\* A text is the sequence of its pieces: the literal parts of an f-string, the
\* values put into it, the separators of a join.
MCP_CLIENTS == {"git_mcp", "task_mcp"}

\* worker.py:205-212  sys.executable for the git server, the first word of
\* system_mappings.py:56 for the task server
command(m) == IF m = "git_mcp" THEN "python" ELSE "tsx"

server_tools(m) == IF m = "git_mcp" THEN GIT_SERVER_TOOLS ELSE TASK_SERVER_TOOLS

\* mcp_adapter.py:20-30  exit_stack holds the contexts that were entered and
\* not yet exited; entered and closed list every enter and every exit.
NewClient(m) ==
    [command |-> command(m), session |-> "None", exit_stack |-> <<>>,
     entered |-> <<>>, closed |-> <<>>, phase |-> "new"]

\* What a method call leaves behind: a returned value or a raised exception.
Str(t) == [kind |-> "str", text |-> t]

None == [kind |-> "None", text |-> <<>>]

Json(t) == [kind |-> "json", text |-> t]

ToolList(m) == [kind |-> "tools", text |-> <<m>>]

RuntimeError(t) == [kind |-> "RuntimeError", text |-> t]

\* The answer of the session to one call_tool request.
PeerResult(content, isError) ==
    [kind |-> "result", content |-> content, isError |-> isError, cause |-> <<>>]

PeerRaises(cause) ==
    [kind |-> "raises", content |-> <<>>, isError |-> FALSE, cause |-> cause]

NOT_CALLED == [kind |-> "not called", content |-> <<>>, isError |-> FALSE, cause |-> <<>>]

Block(type, text) == [type |-> type, text |-> text]

TEXTS == {<<>>, <<" ">>, <<"line one">>, <<"line two">>}

BLOCKS ==
    {Block("text", t) : t \in TEXTS}
        \cup {Block("image", <<>>), Block("application/json", <<"{...}">>)}

CONTENTS == UNION {[1..k -> BLOCKS] : k \in 0..MaxBlocks}

\* What a server whose streams are open does with a request: it answers, or
\* the transport fails.
PeerOutcomes ==
    {PeerResult(c, e) : c \in CONTENTS, e \in BOOLEAN}
        \cup {PeerRaises(<<"Connection closed">>)}

KWARGS ==
    { [repo_path |-> ABSENT, arg |-> "value"],
      [repo_path |-> ".", arg |-> "value"] }

RECURSIVE Reverse(_)
Reverse(q) == IF q = <<>> THEN <<>> ELSE Reverse(Tail(q)) \o <<Head(q)>>

\* AsyncExitStack.enter_async_context
enter_async_context(a, cm) ==
    [a EXCEPT !.exit_stack = Append(a.exit_stack, cm),
              !.entered = Append(a.entered, cm)]

\* Fault: the contexts stay entered.
aclose_nothing(a) == a

\* AsyncExitStack.aclose (mcp_adapter.py:45, 52): the contexts are exited, the
\* last one first
aclose(a) ==
    [a EXCEPT !.exit_stack = <<>>, !.closed = a.closed \o Reverse(a.exit_stack)]

\* mcp_adapter.py:46-48
startup_failure(a, cause) ==
    RuntimeError(<<"Failed to start MCP Server (", a.command, "): ">> \o cause)

STARTUP_FAILURES == {"stdio_client", "ClientSession", "initialize"}

\* mcp_adapter.py:35-41  the client after the try block ran up to the
\* statement that raises, or to its end
aenter_try(a, fail_at) ==
    LET a1 == enter_async_context(a, "stdio_client")
        a2 == [enter_async_context(a1, "ClientSession")
                  EXCEPT !.session = "ClientSession"]
    IN CASE fail_at = "stdio_client" -> a
         [] fail_at = "ClientSession" -> a1
         [] OTHER -> a2

\* mcp_adapter.py:32-48  __aenter__: the client it leaves and what it
\* returned or raised
aenter(a, fail_at) ==
    IF fail_at = "none"
    THEN [client |-> [aenter_try(a, fail_at) EXCEPT !.phase = "entered"],
          outcome |-> "returned", value |-> None]
    ELSE [client |-> [aclose(aenter_try(a, fail_at)) EXCEPT !.phase = "failed"],
          outcome |-> "raised",
          value |-> startup_failure(a, <<fail_at, " failed">>)]

\* mcp_adapter.py:50-52  __aexit__
aexit(a) ==
    [client |-> [aclose(a) EXCEPT !.phase = "exited"],
     outcome |-> "returned", value |-> None]

\* str.join
RECURSIVE Join(_, _)
Join(parts, sep) ==
    IF parts = <<>> THEN <<>>
    ELSE IF Len(parts) = 1 THEN parts[1]
    ELSE parts[1] \o <<sep>> \o Join(Tail(parts), sep)

\* not str.strip(): the text holds white space only
IsBlank(t) == \A i \in 1..Len(t) : t[i] \in {" ", "\n"}

\* mcp_adapter.py:141-142
inject(kwargs) ==
    IF kwargs.repo_path # ABSENT THEN [kwargs EXCEPT !.repo_path = "/app/work_dir"]
    ELSE kwargs

\* Fault: a block that is not text is left out.
RECURSIVE output_text_only(_)
output_text_only(content) ==
    IF content = <<>> THEN <<>>
    ELSE (IF Head(content).type = "text" THEN <<Head(content).text>> ELSE <<>>)
         \o output_text_only(Tail(content))

\* mcp_adapter.py:146-152
RECURSIVE output_text(_)
output_text(content) ==
    IF content = <<>> THEN <<>>
    ELSE <<IF Head(content).type = "text" THEN Head(content).text
           ELSE <<"[", Head(content).type, " content]">>>>
         \o output_text(Tail(content))

NOT_CONNECTED ==
    "MCP Session not connected. Ensure the client is used within an 'async with' block."

\* mcp_adapter.py:135-162  the try block of tool_func
tool_func_try(a, tool_name, peer) ==
    IF a.session = "None" THEN [outcome |-> "raised", value |-> RuntimeError(<<NOT_CONNECTED>>)]
    ELSE IF peer.kind = "raises"
    THEN [outcome |-> "raised", value |-> [kind |-> "McpError", text |-> peer.cause]]
    ELSE IF peer.isError
    THEN [outcome |-> "returned",
          value |-> Str(<<"ERROR executing ", tool_name, ": ">>
                            \o Join(output_text(peer.content), ", "))]
    ELSE LET final == Join(output_text(peer.content), "\n") IN
         [outcome |-> "returned",
          value |-> IF ~IsBlank(final) THEN Str(final)
                    ELSE Str(<<"Tool ", tool_name, " executed successfully.">>)]

\* Fault: no except clause, the exception leaves tool_func.
except_nothing(tool_name, r) == r

\* mcp_adapter.py:164-165  except Exception as e
except_exception(tool_name, r) ==
    IF r.outcome = "raised"
    THEN [outcome |-> "returned",
          value |-> Str(<<"EXCEPTION in tool ", tool_name, ": ">> \o r.value.text)]
    ELSE r

\* mcp_adapter.py:133-165
tool_func(a, tool_name, peer) ==
    except_exception(tool_name, tool_func_try(a, tool_name, peer))

NOT_STARTED == "MCP Session not started."

\* mcp_adapter.py:68-98
call_tool(a, tool_name, peer) ==
    LET failed(t) == [outcome |-> "raised",
                      value |-> RuntimeError(<<"Failed to call tool '", tool_name, "': ">> \o t)]
        c == peer.content
    IN  IF a.session = "None"
        THEN [outcome |-> "raised", value |-> RuntimeError(<<NOT_STARTED>>)]
        ELSE IF peer.kind = "raises" THEN failed(peer.cause)
        ELSE IF peer.isError
        THEN failed(<<"Error calling tool '", tool_name, "': ">>
                        \o (IF c # <<>> /\ c[1].type = "text" THEN c[1].text
                            ELSE <<"Unknown error">>))
        ELSE IF c # <<>> /\ c[1].type = "application/json"
        THEN [outcome |-> "returned", value |-> Json(c[1].text)]
        ELSE IF c # <<>> /\ c[1].type = "text"
        THEN [outcome |-> "returned", value |-> Str(c[1].text)]
        ELSE [outcome |-> "returned", value |-> None]

\* mcp_adapter.py:54-66
get_langchain_tools(a, m, peer) ==
    IF a.session = "None"
    THEN [outcome |-> "raised", value |-> RuntimeError(<<NOT_STARTED>>)]
    ELSE IF peer.kind = "raises"
    THEN [outcome |-> "raised", value |-> [kind |-> "McpError", text |-> peer.cause]]
    ELSE [outcome |-> "returned", value |-> ToolList(m)]

NO_KWARGS == [repo_path |-> ABSENT, arg |-> ABSENT]

Op(name, m, tool_name, kwargs, peer, r) ==
    [name |-> name, client |-> m, tool |-> tool_name, kwargs |-> kwargs,
     peer |-> peer, outcome |-> r.outcome, value |-> r.value]

NO_OP == Op("none", "", "", NO_KWARGS, NOT_CALLED, [outcome |-> "", value |-> None])

\* Whether the request reaches the session, and what the session answers: an
\* open session gives the answer of the request, a closed one fails.
Answer(a) ==
    IF a.session = "None" THEN NOT_CALLED
    ELSE IF a.exit_stack = <<>> THEN PeerRaises(<<"Connection closed">>)
    ELSE request.answer

\* mcp_adapter.py:32-48
Aenter(m) ==
    /\ mcp[m].phase = "new"
    /\ \E fail_at \in STARTUP_FAILURES \cup {"none"} :
        LET r == aenter(mcp[m], fail_at) IN
        /\ mcp' = [mcp EXCEPT ![m] = r.client]
        /\ op' = Op("__aenter__", m, "", NO_KWARGS, NOT_CALLED, r)
    /\ UNCHANGED <<request, graphVars, nodeVars, toolVars, sanVars, cycleVars, connVars, fileVars>>

\* mcp_adapter.py:50-52
Aexit(m) ==
    /\ mcp[m].phase = "entered"
    /\ LET r == aexit(mcp[m]) IN
        /\ mcp' = [mcp EXCEPT ![m] = r.client]
        /\ op' = Op("__aexit__", m, "", NO_KWARGS, NOT_CALLED, r)
    /\ UNCHANGED <<request, graphVars, nodeVars, toolVars, sanVars, cycleVars, connVars, fileVars>>

\* mcp_adapter.py:133-165  one call of the invocable of a discovered capability
ToolFunc(m) ==
    /\ op' = Op("tool_func", m, request.tool, inject(request.kwargs), Answer(mcp[m]),
                 tool_func(mcp[m], request.tool, Answer(mcp[m])))
    /\ UNCHANGED <<mcp, request, graphVars, nodeVars, toolVars, sanVars, cycleVars, connVars, fileVars>>

\* mcp_adapter.py:68-98
CallTool(m) ==
    /\ op' = Op("call_tool", m, request.tool, request.kwargs, Answer(mcp[m]),
                 call_tool(mcp[m], request.tool, Answer(mcp[m])))
    /\ UNCHANGED <<mcp, request, graphVars, nodeVars, toolVars, sanVars, cycleVars, connVars, fileVars>>

\* mcp_adapter.py:54-66  list_tools answers or fails
GetLangchainTools(m) ==
    /\ \E peer \in {PeerResult(<<>>, FALSE), PeerRaises(<<"Connection closed">>)} :
        LET answer == IF mcp[m].session = "None" THEN NOT_CALLED
                      ELSE IF mcp[m].exit_stack = <<>> THEN PeerRaises(<<"Connection closed">>)
                      ELSE peer
        IN op' = Op("get_langchain_tools", m, "", NO_KWARGS, answer,
                    get_langchain_tools(mcp[m], m, answer))
    /\ UNCHANGED <<mcp, request, graphVars, nodeVars, toolVars, sanVars, cycleVars, connVars, fileVars>>

NO_REQUEST == [client |-> "", tool |-> "", kwargs |-> NO_KWARGS, answer |-> NOT_CALLED]

InitAdapter ==
    /\ mcp = [m \in MCP_CLIENTS |-> NewClient(m)]
    /\ request = NO_REQUEST
    /\ op = NO_OP

\* The methods of the client the request is for, called in any order.
AdapterNext ==
    \/ Aenter(request.client)
    \/ Aexit(request.client)
    \/ ToolFunc(request.client)
    \/ CallTool(request.client)
    \/ GetLangchainTools(request.client)

\* ---------------------------------------------------------- the agent cycle
\* Python values of the polling answer: None, str, list, dict.  The items of
\* a dict are its key/value pairs.
PyNone == [py |-> "None", text |-> <<>>, items |-> <<>>]

PyStr(t) == [py |-> "str", text |-> t, items |-> <<>>]

PyList(items) == [py |-> "list", text |-> <<>>, items |-> items]

PyDict(items) == [py |-> "dict", text |-> <<>>, items |-> items]

Pair(k, v) == [key |-> k, value |-> v]

\* key in d
Has(d, k) == d.py = "dict" /\ \E i \in 1..Len(d.items) : d.items[i].key = k

\* d[key], d.get(key)
Get(d, k) ==
    IF Has(d, k) THEN d.items[CHOOSE i \in 1..Len(d.items) : d.items[i].key = k].value
    ELSE PyNone

\* bool(v)
Truthy(v) ==
    CASE v.py = "None" -> FALSE
      [] v.py = "str" -> v.text # <<>>
      [] OTHER -> v.items # <<>>

\* The value call_tool returned (mcp_adapter.py:87-95) as a Python value.
to_py(value) ==
    CASE value.kind = "str" -> PyStr(value.text)
      [] value.kind = "json" -> value.text
      [] OTHER -> PyNone

Returned(v) == [outcome |-> "returned", value |-> v]

Raised(e) == [outcome |-> "raised", value |-> e]

\* worker.py:235  raw_tasks[0] of a value that is not empty: the first
\* character of a str, the first element of a list, the value under the key 0
\* of a dict
first_item(v) ==
    CASE v.py = "str" -> Returned(PyStr(<<Head(v.text)>>))
      [] v.py = "list" -> Returned(Head(v.items))
      [] OTHER -> Raised("KeyError")

\* system_mappings.py:32  what list.extend(v) appends: the elements of a list,
\* the keys of a dict, the characters of a str (one per piece here: they are no
\* dicts, line 41 drops each of them)
elements(v) ==
    CASE v.py = "list" -> v.items
      [] v.py = "dict" -> [i \in 1..Len(v.items) |-> PyStr(<<v.items[i].key>>)]
      [] v.py = "str" -> [i \in 1..Len(v.text) |-> PyStr(<<v.text[i]>>)]
      [] OTHER -> <<>>

\* Fault: the lists of the board are taken last one first.
RECURSIVE all_cards_reversed(_)
all_cards_reversed(lists) ==
    IF lists = <<>> THEN <<>>
    ELSE all_cards_reversed(Tail(lists))
         \o (IF Has(Head(lists), "cards") THEN elements(Get(Head(lists), "cards")) ELSE <<>>)

\* system_mappings.py:28-33  the cards of the dicts of data["lists"]
RECURSIVE all_cards(_)
all_cards(lists) ==
    IF lists = <<>> THEN <<>>
    ELSE (IF Has(Head(lists), "cards") THEN elements(Get(Head(lists), "cards")) ELSE <<>>)
         \o all_cards(Tail(lists))

\* system_mappings.py:30-32  extend raises TypeError for a value that cannot be
\* iterated: the "cards" of a list of the board is None
extend_fails(data) ==
    /\ data.py = "dict"
    /\ ~(Has(data, "cards") /\ Get(data, "cards").py = "list")
    /\ Has(data, "lists")
    /\ Get(data, "lists").py = "list"
    /\ \E i \in 1..Len(Get(data, "lists").items) :
          LET trello_list == Get(data, "lists").items[i] IN
          Has(trello_list, "cards") /\ Get(trello_list, "cards").py = "None"

\* system_mappings.py:19-34
raw_cards(data) ==
    IF data.py = "list" THEN data.items
    ELSE IF Has(data, "cards") /\ Get(data, "cards").py = "list"
    THEN Get(data, "cards").items
    ELSE IF Has(data, "lists") /\ Get(data, "lists").py = "list"
    THEN all_cards(Get(data, "lists").items)
    ELSE <<>>

\* system_mappings.py:40-49
RECURSIVE canonical_tasks(_)
canonical_tasks(cards) ==
    IF cards = <<>> THEN <<>>
    ELSE (IF Head(cards).py = "dict"
          THEN <<PyDict(<<Pair("id", Get(Head(cards), "id")),
                          Pair("title", Get(Head(cards), "name")),
                          Pair("description", Get(Head(cards), "desc"))>>)>>
          ELSE <<>>)
         \o canonical_tasks(Tail(cards))

\* system_mappings.py:12-49
parse_trello_response(data) == PyList(canonical_tasks(raw_cards(data)))

\* system_mappings.py:53, 60  the response parser of the TRELLO system: the
\* list it returns, or the exception it raises
response_parser(data) ==
    IF extend_fails(data) THEN Raised("TypeError") ELSE Returned(parse_trello_response(data))

\* worker.py:236, 240  task["id"]: a list takes no str index
task_id(t) ==
    IF t.py = "dict" THEN (IF Has(t, "id") THEN Returned(Get(t, "id")) ELSE Raised("KeyError"))
    ELSE Raised("TypeError")

\* worker.py:256  task.get('id', 'N/A') if task else 'N/A'
task_id_or_na(t) ==
    IF ~Truthy(t) THEN Returned(PyStr(<<"N/A">>))
    ELSE IF t.py = "dict" THEN Returned(Get(t, "id"))
    ELSE Raised("AttributeError")

\* What the task server holds and how it answers the polling tool.
CARD(id) ==
    PyDict(<<Pair("id", PyStr(<<id>>)), Pair("name", PyStr(<<"Fix the login">>)),
             Pair("desc", PyStr(<<"It fails.">>))>>)

BOARD == PyDict(<<Pair("cards", PyList(<<CARD("card1"), CARD("card2")>>))>>)

BOARD_OF_LISTS ==
    PyDict(<<Pair("lists", PyList(<<PyDict(<<Pair("cards", PyList(<<CARD("card1")>>))>>)>>))>>)

POLL_JSON ==
    { PyList(<<>>), PyDict(<<>>), BOARD, BOARD_OF_LISTS,
      PyList(<<CARD("card1")>>), PyList(<<BOARD>>), PyList(<<BOARD_OF_LISTS>>),
      PyList(<<PyList(<<CARD("card1")>>)>>) }

POLL_ANSWERS ==
    {PeerResult(<<Block("application/json", v)>>, FALSE) : v \in POLL_JSON}
        \cup { PeerResult(<<>>, FALSE),
               PeerResult(<<Block("text", <<>>)>>, FALSE),
               PeerResult(<<Block("text", <<"{", "\"lists\": [...]}">>)>>, FALSE),
               PeerResult(<<Block("image", <<>>)>>, FALSE),
               PeerResult(<<Block("text", <<"board not found">>)>>, TRUE),
               PeerRaises(<<"Connection closed">>) }

\* worker.py:162-195  the configuration: no row, an inactive or an active one;
\* the system type; system_config_json empty, or a payload stored encrypted
\* with the key of the process, encrypted with another key, or as it is;
\* whether the process has a key (cipher_suite); whether the work directory
\* can be made a repository (local_tools.py:168-194).
ENCRYPTIONS == {"key", "other key", "plain"}

STORED ==
    {[encrypted |-> e, payload |-> x] :
        e \in ENCRYPTIONS, x \in {"{ids}", "{}", "not json"}}
        \cup {[encrypted |-> "plain", payload |-> ""]}

CONFIGS ==
    [config : {"none", "inactive", "active"}, system : {"TRELLO", "JIRA"},
     stored : STORED, key : BOOLEAN, repo : {"ok", "fails"}]

\* The text of a Fernet token.
CIPHERTEXT == "gAAAAA..."

\* worker.py:177-185  decrypt, and behind InvalidToken the stored text itself
decrypted_json(stored) ==
    CASE stored.encrypted = "key" -> stored.payload
      [] stored.encrypted = "plain" -> stored.payload
      [] OTHER -> CIPHERTEXT

\* Fault: without a key the stored text is used as it is.
sys_config_without_key(c) ==
    IF c.stored.payload = "" THEN Returned("{}")
    ELSE IF decrypted_json(c.stored) \notin {"{ids}", "{}"} THEN [outcome |-> "return", value |-> ""]
    ELSE Returned(decrypted_json(c.stored))

\* worker.py:174-195  sys_config, or the early return
sys_config(c) ==
    IF c.stored.payload = "" THEN Returned("{}")
    ELSE IF ~c.key THEN [outcome |-> "return", value |-> ""]
    ELSE IF decrypted_json(c.stored) \notin {"{ids}", "{}"}
    THEN [outcome |-> "return", value |-> ""]
    ELSE Returned(decrypted_json(c.stored))

\* Fault: the stack exits the client it entered last and no other.
stack_exit_last(clients) ==
    [m \in MCP_CLIENTS |->
        IF m = "task_mcp" /\ clients[m].phase = "entered" THEN aexit(clients[m]).client
        ELSE clients[m]]

\* worker.py:203  the end of the async with block: the AsyncExitStack exits
\* the clients that were entered on it (lines 214-215)
stack_exit(clients) ==
    [m \in MCP_CLIENTS |->
        IF clients[m].phase = "entered" THEN aexit(clients[m]).client ELSE clients[m]]

TaskCall(tool_name, text, r) == [tool |-> tool_name, text |-> text, outcome |-> r.outcome]

\* worker.py:162-201  up to the async with block: the early returns, and
\* ensure_repository_exists, whose git init can fail
CycleStart ==
    /\ pc = "start"
    /\ IF cfg.config # "active" \/ cfg.system # "TRELLO"
          \/ sys_config(cfg).outcome = "return"
       THEN pc' = "done" /\ exc' = ""
       ELSE IF cfg.repo = "fails"
       THEN pc' = "done" /\ exc' = "CalledProcessError"
       ELSE pc' = "enter_git" /\ exc' = ""
    /\ UNCHANGED <<cfg, raw_tasks, task, caught, task_calls, mcp, request, op>>
    /\ UNCHANGED <<graphVars, nodeVars, toolVars, sanVars, connVars, fileVars>>

\* worker.py:214-215  stack.enter_async_context(git_mcp), then (task_mcp)
CycleEnter(m) ==
    /\ pc = (IF m = "git_mcp" THEN "enter_git" ELSE "enter_task")
    /\ \E fail_at \in STARTUP_FAILURES \cup {"none"} :
        LET r == aenter(mcp[m], fail_at) IN
        /\ mcp' = [mcp EXCEPT ![m] = r.client]
        /\ op' = Op("__aenter__", m, "", NO_KWARGS, NOT_CALLED, r)
        /\ exc' = IF r.outcome = "raised" THEN r.value.kind ELSE ""
        /\ pc' = IF r.outcome = "raised" THEN "unwind"
                 ELSE IF m = "git_mcp" THEN "enter_task" ELSE "git_tools"
    /\ UNCHANGED <<cfg, raw_tasks, task, caught, task_calls, request>>
    /\ UNCHANGED <<graphVars, nodeVars, toolVars, sanVars, connVars, fileVars>>

\* worker.py:217-218
CycleGetTools(m) ==
    /\ pc = (IF m = "git_mcp" THEN "git_tools" ELSE "task_tools")
    /\ \E peer \in {PeerResult(<<>>, FALSE), PeerRaises(<<"Connection closed">>)} :
        LET r == get_langchain_tools(mcp[m], m, peer) IN
        /\ op' = Op("get_langchain_tools", m, "", NO_KWARGS, peer, r)
        /\ exc' = IF r.outcome = "raised" THEN r.value.kind ELSE ""
        /\ pc' = IF r.outcome = "raised" THEN "unwind"
                 ELSE IF m = "git_mcp" THEN "task_tools" ELSE "poll"
    /\ UNCHANGED <<cfg, raw_tasks, task, caught, task_calls, mcp, request>>
    /\ UNCHANGED <<graphVars, nodeVars, toolVars, sanVars, connVars, fileVars>>

\* worker.py:224-233  polling_args needs trello_readfrom_list_id of sys_config
\* (system_mappings.py:58); then the polling tool is called
Poll ==
    /\ pc = "poll"
    /\ IF sys_config(cfg).value # "{ids}"
       THEN /\ exc' = "KeyError"
            /\ pc' = "unwind"
            /\ UNCHANGED <<raw_tasks, task_calls, op>>
       ELSE \E peer \in POLL_ANSWERS :
            LET r == call_tool(mcp["task_mcp"], "read_board", peer) IN
            /\ op' = Op("call_tool", "task_mcp", "read_board", NO_KWARGS, peer, r)
            /\ task_calls' = Append(task_calls, TaskCall("read_board", <<>>, r))
            /\ IF r.outcome = "raised"
               THEN exc' = r.value.kind /\ pc' = "handler" /\ UNCHANGED raw_tasks
               ELSE /\ raw_tasks' = to_py(r.value)
                    /\ exc' = ""
                    /\ pc' = IF Truthy(to_py(r.value)) THEN "parse" ELSE "unwind"
    /\ UNCHANGED <<cfg, task, caught, mcp, request>>
    /\ UNCHANGED <<graphVars, nodeVars, toolVars, sanVars, connVars, fileVars>>

\* worker.py:235-236  the response parser is applied to raw_tasks[0] and the
\* id of its value is logged; line 238 runs next if that raised nothing
Parse ==
    /\ pc = "parse"
    /\ LET item == first_item(raw_tasks) IN
       IF item.outcome = "raised"
       THEN exc' = item.value /\ pc' = "handler" /\ UNCHANGED task
       ELSE IF response_parser(item.value).outcome = "raised"
       THEN exc' = response_parser(item.value).value /\ pc' = "handler" /\ UNCHANGED task
       ELSE LET parsed == response_parser(item.value).value IN
            /\ task' = parsed
            /\ exc' = IF task_id(parsed).outcome = "raised" THEN task_id(parsed).value ELSE ""
            /\ pc' = IF task_id(parsed).outcome = "raised" THEN "handler" ELSE "started"
    /\ UNCHANGED <<cfg, raw_tasks, caught, task_calls, mcp, request, op>>
    /\ UNCHANGED <<graphVars, nodeVars, toolVars, sanVars, connVars, fileVars>>

\* worker.py:259  f"... Agent crashed: {e}"
CRASHED == "Agent crashed: "

\* worker.py:254-264  except Exception as e: the log line, then the comment
\* under the id of the task if there is one
Handler ==
    /\ pc = "handler"
    /\ caught' = exc
    /\ pc' = "unwind"
    /\ IF task_id_or_na(task).outcome = "raised"
       THEN exc' = task_id_or_na(task).value /\ UNCHANGED <<task_calls, op>>
       ELSE IF Truthy(task) /\ Truthy(Get(task, "id"))
       THEN \E peer \in {PeerResult(<<>>, FALSE), PeerRaises(<<"Connection closed">>)} :
            LET r == call_tool(mcp["task_mcp"], "add_comment_to_card", peer) IN
            /\ op' = Op("call_tool", "task_mcp", "add_comment_to_card", NO_KWARGS, peer, r)
            /\ task_calls' = Append(task_calls,
                                    TaskCall("add_comment_to_card", <<CRASHED, exc>>, r))
            /\ exc' = IF r.outcome = "raised" THEN r.value.kind ELSE ""
       ELSE exc' = "" /\ UNCHANGED <<task_calls, op>>
    /\ UNCHANGED <<cfg, raw_tasks, task, mcp, request>>
    /\ UNCHANGED <<graphVars, nodeVars, toolVars, sanVars, connVars, fileVars>>

\* worker.py:203, 273-277  the block is left, by its end, by a return or by
\* an exception, which run_agent_cycle logs
Unwind ==
    /\ pc = "unwind"
    /\ mcp' = stack_exit(mcp)
    /\ pc' = "done"
    /\ UNCHANGED <<cfg, raw_tasks, task, exc, caught, task_calls, request, op>>
    /\ UNCHANGED <<graphVars, nodeVars, toolVars, sanVars, connVars, fileVars>>

DEFAULT_CONFIG ==
    [config |-> "active", system |-> "TRELLO",
     stored |-> [encrypted |-> "key", payload |-> "{ids}"], key |-> TRUE, repo |-> "ok"]

\* worker.py:160, 234  the cycle has not begun
InitCycle ==
    /\ pc = "start"
    /\ raw_tasks = PyNone
    /\ task = PyNone
    /\ exc = ""
    /\ caught = ""
    /\ task_calls = <<>>

CycleNext ==
    \/ CycleStart
    \/ \E m \in MCP_CLIENTS : CycleEnter(m)
    \/ \E m \in MCP_CLIENTS : CycleGetTools(m)
    \/ Poll
    \/ Parse
    \/ Handler
    \/ Unwind

\* ------------------------------------------------------- the task connector
\* task_connector.py:33-34  access_token and user_id are None until a login
NO_VALUE == "None"

NewConnector == [access_token |-> NO_VALUE, user_id |-> NO_VALUE, authorization |-> <<>>]

\* How the TaskApp answers a request: with the body asked for, with a body
\* that lacks the field read from it, or not at all (raise_for_status or the
\* transport raise a RequestException).
HTTP_ANSWERS == {"ok", "field missing", "RequestException"}

\* A JSON null.
NULL == "<null>"

\* The status of a fetched task: the key can be absent and the value null.
STATUSES == {"open", "OPEN", "Open", "closed", "", ABSENT, NULL}

\* task_connector.py:44-80  authenticate: the connector it leaves and what it
\* returned or raised
authenticate(conn, login, me) ==
    LET failed(c) == [connector |-> c, outcome |-> "raised", value |-> "TaskAppConnectorError"]
        token == IF login = "ok" THEN "token" ELSE NO_VALUE
        c1 == [conn EXCEPT !.access_token = token]
        c2 == [c1 EXCEPT !.authorization = <<"Bearer ", token>>]
        id == IF me = "ok" THEN "user1" ELSE NO_VALUE
        c3 == [c2 EXCEPT !.user_id = id]
    IN  IF login = "RequestException" THEN failed(conn)
        ELSE IF token = NO_VALUE THEN failed(c1)
        ELSE IF me = "RequestException" THEN failed(c2)
        ELSE IF id = NO_VALUE THEN failed(c3)
        ELSE [connector |-> c3, outcome |-> "returned", value |-> "True"]

\* task_connector.py:84  not self.access_token or not self.user_id
needs_login(conn) == conn.access_token = NO_VALUE \/ conn.user_id = NO_VALUE

\* task_connector.py:104  task.get("status", "").lower(): the default stands in
\* for an absent key only, and None has no lower()
status_lower(t) ==
    IF t.status = NULL THEN Raised("AttributeError")
    ELSE Returned(Lower(state_get(t.status, "")))

\* task_connector.py:103-105  the list comprehension: the open tasks in their
\* order, or the exception of the first task whose status cannot be read
RECURSIVE open_tasks(_)
open_tasks(tasks) ==
    IF tasks = <<>> THEN Returned(<<>>)
    ELSE LET s == status_lower(Head(tasks))
             rest == open_tasks(Tail(tasks))
         IN  IF s.outcome = "raised" THEN s
             ELSE IF rest.outcome = "raised" THEN rest
             ELSE Returned((IF s.value = "open" THEN <<Head(tasks)>> ELSE <<>>) \o rest.value)

\* task_connector.py:87-110  get_open_tasks: the connector it leaves and what
\* it returned or raised; the except clause catches RequestException and
\* TaskAppConnectorError
get_open_tasks(conn, login, me, fetch, tasks) ==
    LET a == IF needs_login(conn) THEN authenticate(conn, login, me)
             ELSE [connector |-> conn, outcome |-> "returned", value |-> "True"]
    IN  IF a.outcome = "raised"
        THEN [connector |-> a.connector, outcome |-> "returned", value |-> NO_VALUE]
        ELSE IF fetch = "RequestException"
        THEN [connector |-> a.connector, outcome |-> "returned", value |-> NO_VALUE]
        ELSE [connector |-> a.connector,
              outcome |-> open_tasks(tasks).outcome,
              value |-> open_tasks(tasks).value]

\* A call of a method: the connector before it, the answers of the TaskApp to
\* the requests it made ("": the request was not made), and its outcome.
ConnOp(name, before, login, me, fetch, r) ==
    [name |-> name, before |-> before, login |-> login, me |-> me, fetch |-> fetch,
     outcome |-> r.outcome, value |-> r.value]

NO_CONN_OP ==
    [name |-> "none", before |-> NewConnector, login |-> "", me |-> "", fetch |-> "",
     outcome |-> "", value |-> NO_VALUE]

\* The answer to the request for /api/auth/me, which is made behind a login
\* that gave a token.
MeAnswers(login) == IF login = "ok" THEN HTTP_ANSWERS ELSE {""}

\* task_connector.py:44-80
Authenticate ==
    /\ \E login \in HTTP_ANSWERS : \E me \in MeAnswers(login) :
        LET r == authenticate(connector, login, me) IN
        /\ connector' = r.connector
        /\ conn_op' = ConnOp("authenticate", connector, login, me, "", r)
    /\ UNCHANGED <<all_tasks, graphVars, nodeVars, toolVars, sanVars, adapterVars, cycleVars, fileVars>>

\* task_connector.py:82-110  the requests of a login are made if the
\* connector needs one, the request for the tasks if the login did not fail
GetOpenTasks ==
    /\ \E login \in (IF needs_login(connector) THEN HTTP_ANSWERS ELSE {""}) :
       \E me \in MeAnswers(login) :
       \E fetch \in (IF needs_login(connector) /\ ~(login = "ok" /\ me = "ok") THEN {""}
                     ELSE {"ok", "RequestException"}) :
        LET r == get_open_tasks(connector, login, me, fetch, all_tasks) IN
        /\ connector' = r.connector
        /\ conn_op' = ConnOp("get_open_tasks", connector, login, me, fetch, r)
    /\ UNCHANGED <<all_tasks, graphVars, nodeVars, toolVars, sanVars, adapterVars, cycleVars, fileVars>>

\* task_connector.py:23-39  the connector after construction
InitConnector ==
    /\ connector = NewConnector
    /\ all_tasks = <<>>
    /\ conn_op = NO_CONN_OP

ConnectorNext ==
    \/ Authenticate
    \/ GetOpenTasks

\* ------------------------------------------------------------ the file tools
\* A path is the number of slashes it begins with and the names between its
\* slashes; a path that ends with a slash has the empty name last.
Path(slashes, names) == [slashes |-> slashes, names |-> names]

NO_PATH == Path(0, <<>>)

\* local_tools.py:37, 88
base_dir == Path(1, <<"app", "work_dir">>)

\* str.lstrip("/")
lstrip(p) == Path(0, p.names)

\* os.path.join(a, b): b if it begins with a slash, else a, a slash and b
join(a, b) ==
    IF b.slashes > 0 THEN b
    ELSE Path(a.slashes, a.names \o (IF b.names = <<>> THEN <<"">> ELSE b.names))

\* os.path.normpath on the names of an absolute path: "" and "." are dropped,
\* ".." takes the name before it away and stays at the root
RECURSIVE normpath(_, _)
normpath(done, rest) ==
    IF rest = <<>> THEN done
    ELSE normpath(CASE Head(rest) \in {"", "."} -> done
                    [] Head(rest) = ".." ->
                          IF done = <<>> THEN <<>> ELSE SubSeq(done, 1, Len(done) - 1)
                    [] OTHER -> Append(done, Head(rest)),
                  Tail(rest))

\* os.path.abspath of a path that begins with a slash
abspath(p) == Path(1, normpath(<<>>, p.names))

\* str.startswith on two names of the model
name_startswith(name, prefix) ==
    \/ name = prefix
    \/ prefix = "work_dir" /\ name = "work_dir_evil"

\* str.startswith on the texts of two absolute paths: the text of p begins
\* with the text of b if they agree up to the last name of b and the name of p
\* at that place begins with it
startswith(p, b) ==
    LET n == Len(b.names) IN
    /\ Len(p.names) >= n
    /\ \A i \in 1..(n - 1) : p.names[i] = b.names[i]
    /\ name_startswith(p.names[n], b.names[n])

\* os.path.dirname
dirname(p) == Path(p.slashes, SubSeq(p.names, 1, Len(p.names) - 1))

\* What a call of a file tool did: the path it handed to open(), the path it
\* handed to os.makedirs(), and the text it returned.
FileOp(opened, made, value) == [opened |-> opened, made |-> made, value |-> value]

NO_FILE_OP == FileOp(NO_PATH, NO_PATH, "")

\* local_tools.py:31-55  holds: what the file system has at full_path
read_file(filepath, holds) ==
    LET clean_path == lstrip(filepath)
        full_path == join(base_dir, clean_path)
    IN  IF ~startswith(abspath(full_path), base_dir)
        THEN FileOp(NO_PATH, NO_PATH, "ERROR: Access denied.")
        ELSE IF holds = "missing"
        THEN FileOp(NO_PATH, NO_PATH, "ERROR: File {clean_path} does not exist.")
        ELSE IF holds = "directory"
        THEN FileOp(full_path, NO_PATH, "ERROR reading file: Is a directory")
        ELSE IF holds = "empty"
        THEN FileOp(full_path, NO_PATH, "(File is empty)")
        ELSE FileOp(full_path, NO_PATH, "{content}")

\* local_tools.py:82-101
write_to_file(filepath, holds) ==
    LET clean_path == lstrip(filepath)
        full_path == join(base_dir, clean_path)
    IN  IF ~startswith(abspath(full_path), base_dir)
        THEN FileOp(NO_PATH, NO_PATH, "ERROR: Access denied.")
        ELSE IF holds = "directory"
        THEN FileOp(full_path, dirname(full_path), "ERROR writing file: Is a directory")
        ELSE FileOp(full_path, dirname(full_path), "Successfully wrote to {clean_path}")

FileCall(tool_name, filepath, holds) ==
    [tool |-> tool_name, filepath |-> filepath, holds |-> holds]

NO_FILE_CALL == FileCall("", NO_PATH, "")

\* local_tools.py:31-55  the tool is called with the argument of the model
ReadFile ==
    /\ file_call.tool = "read_file"
    /\ file_op = NO_FILE_OP
    /\ file_op' = read_file(file_call.filepath, file_call.holds)
    /\ UNCHANGED <<file_call, graphVars, nodeVars, toolVars, sanVars, adapterVars, cycleVars, connVars>>

\* local_tools.py:82-101
WriteFile ==
    /\ file_call.tool = "write_to_file"
    /\ file_op = NO_FILE_OP
    /\ file_op' = write_to_file(file_call.filepath, file_call.holds)
    /\ UNCHANGED <<file_call, graphVars, nodeVars, toolVars, sanVars, adapterVars, cycleVars, connVars>>

InitFile ==
    /\ file_call = NO_FILE_CALL
    /\ file_op = NO_FILE_OP

FileNext ==
    \/ ReadFile
    \/ WriteFile

\* ----------------------------------------------------------- specifications
TASK_MESSAGE == "Task: title\nDescription: description"

\* The router node has not run.
NOT_CLASSIFIED == "<not classified>"

\* worker.py:141-149  the state the graph starts from
InitGraph ==
    /\ messages = <<HumanMessage(TASK_MESSAGE)>>
    /\ next_step = ""
    /\ classification = NOT_CLASSIFIED
    /\ node = "router"
    /\ step = 0
    /\ status = "running"
    /\ error = ""
    /\ result = ""

\* coder.py:45-47  the locals of a specialist node when it is entered
InitNode ==
    /\ attempt = 0
    /\ current_tool_choice = "auto"
    /\ extra = 0
    /\ llm_calls = <<>>
    /\ returned = NONE

InitTools ==
    /\ bound = FALSE
    /\ analyst_tools = {}
    /\ coder_tools = {}

InitSan ==
    /\ response = NONE
    /\ sanitized = NONE

\* One execution of process_task_with_langgraph with both servers' full sets.
Init ==
    /\ InitGraph
    /\ InitNode
    /\ InitConnector
    /\ InitFile
    /\ InitTools
    /\ InitSan
    /\ InitAdapter
    /\ InitCycle
    /\ cfg = DEFAULT_CONFIG
    /\ git_tools = GIT_SERVER_TOOLS
    /\ task_tools = TASK_SERVER_TOOLS

Next ==
    \/ BindTools
    \/ Router
    \/ SpecialistCall
    \/ SpecialistReturn
    \/ Tools
    \/ Correction
    \/ RecursionLimit

Spec == Init /\ [][Next]_vars

\* The backend answers every call and the graph runs every node that is due.
FairSpec == Init /\ [][Next]_vars /\ WF_vars(Next)

\* sanitize_response on one argument: a message with up to MaxToolCalls
\* invocations whose names are valid, malformed, empty or at the length limit.
SAN_NAMES ==
    {"git_push_origin", BAD_NAME, "", NAME_63, NAME_64, NAME_65, NAME_70, NAME_NL}

NameLists == UNION {[1..k -> SAN_NAMES] : k \in 0..MaxToolCalls}

SanInputs ==
    {AIMessage(t, MakeCalls(n, 1)) : t \in ModelTexts, n \in NameLists}
        \cup {HumanMessage(TASK_MESSAGE)}

InitSanitize ==
    /\ InitGraph
    /\ InitNode
    /\ InitConnector
    /\ InitFile
    /\ InitTools
    /\ git_tools = GIT_SERVER_TOOLS
    /\ task_tools = TASK_SERVER_TOOLS
    /\ response \in SanInputs
    /\ sanitized = NONE
    /\ InitAdapter
    /\ InitCycle
    /\ cfg = DEFAULT_CONFIG

SanSpec == InitSanitize /\ [][Sanitize]_vars

\* The composition of the tool sets for every pair of discovered sets.
InitBind ==
    /\ InitGraph
    /\ InitNode
    /\ InitConnector
    /\ InitFile
    /\ InitTools
    /\ InitSan
    /\ InitAdapter
    /\ InitCycle
    /\ cfg = DEFAULT_CONFIG
    /\ git_tools \in SUBSET GIT_SERVER_TOOLS
    /\ task_tools \in SUBSET TASK_SERVER_TOOLS

BindSpec == InitBind /\ [][BindTools]_vars

\* worker.py:100-104  the conditional edge behind the router applied to one
\* state: route_after_router picks the key, the path map the node.
RouteAfterRouter ==
    /\ status = "running"
    /\ node = "router"
    /\ Advance(messages, follow(ROLE_EDGES, route_after_router(next_step)))
    /\ UNCHANGED <<next_step, classification, nodeVars, toolVars, sanVars, adapterVars, cycleVars, connVars, fileVars>>

\* The values of state["next_step"] the edge is applied to: the role names in
\* three spellings, the empty string of the initial state (worker.py:148), no
\* key at all, and strings that name no role.
ROUTE_INPUTS ==
    {"CODER", "coder", "Coder", "BUGFIXER", "bugfixer", "BugFixer",
     "ANALYST", "analyst", "Analyst", "", ABSENT, "CODER ", "TESTER",
     "I am not sure."}

\* The conversations the state holds at that point.
ROUTE_MESSAGES ==
    { <<HumanMessage(TASK_MESSAGE)>>,
      <<HumanMessage("Task: fix the login\nDescription: it fails")>>,
      <<HumanMessage("Task: explain the code\nDescription: ")>>,
      <<HumanMessage(TASK_MESSAGE), AIMessage("BUGFIXER", <<>>)>> }

InitRoute ==
    /\ node = "router"
    /\ step = 0
    /\ status = "running"
    /\ error = ""
    /\ result = ""
    /\ classification = NOT_CLASSIFIED
    /\ messages \in ROUTE_MESSAGES
    /\ next_step \in ROUTE_INPUTS
    /\ InitNode
    /\ InitConnector
    /\ InitFile
    /\ InitTools
    /\ InitSan
    /\ InitAdapter
    /\ InitCycle
    /\ cfg = DEFAULT_CONFIG
    /\ git_tools = GIT_SERVER_TOOLS
    /\ task_tools = TASK_SERVER_TOOLS

RouteSpec == InitRoute /\ [][RouteAfterRouter]_vars

\* One client, one capability of its server, the arguments of one call and the
\* answer of the server to it.
REQUESTS ==
    {[client |-> m, tool |-> t, kwargs |-> k, answer |-> p] :
        m \in MCP_CLIENTS, t \in {"git_status", "add_comment_to_card"},
        k \in KWARGS, p \in PeerOutcomes}

InitAdapterSpec ==
    /\ InitGraph
    /\ InitNode
    /\ InitConnector
    /\ InitFile
    /\ InitTools
    /\ InitSan
    /\ git_tools = GIT_SERVER_TOOLS
    /\ task_tools = TASK_SERVER_TOOLS
    /\ mcp = [m \in MCP_CLIENTS |-> NewClient(m)]
    /\ op = NO_OP
    /\ request \in {r \in REQUESTS : r.tool \in server_tools(r.client)}
    /\ InitCycle
    /\ cfg = DEFAULT_CONFIG

AdapterSpec == InitAdapterSpec /\ [][AdapterNext]_vars

\* One cycle of run_agent_cycle for every stored configuration.
InitCycleSpec ==
    /\ InitGraph
    /\ InitNode
    /\ InitConnector
    /\ InitFile
    /\ InitTools
    /\ InitSan
    /\ git_tools = GIT_SERVER_TOOLS
    /\ task_tools = TASK_SERVER_TOOLS
    /\ InitAdapter
    /\ InitCycle
    /\ cfg \in CONFIGS

CycleSpec == InitCycleSpec /\ [][CycleNext]_vars

\* worker.py:153-158  the scan for the result, applied to one conversation
ScanResult ==
    /\ status = "running"
    /\ node = "END"
    /\ status' = "returned"
    /\ result' = final_summary(messages)
    /\ UNCHANGED <<messages, next_step, classification, node, step, error>>
    /\ UNCHANGED <<nodeVars, toolVars, sanVars, adapterVars, cycleVars, connVars, fileVars>>

\* The messages of the conversations the scan is applied to: turns with no,
\* one or two finish_task invocations, with and without a summary, and
\* messages that are no turn of the model.
SCAN_MESSAGES ==
    { HumanMessage(TASK_MESSAGE),
      ToolMessage("ok", "call_1"),
      AIMessage("Some text", <<>>),
      AIMessage("", <<Call("read_file", "call_1", ABSENT)>>),
      AIMessage("", <<Call("finish_task", "call_1", "Summary A")>>),
      AIMessage("", <<Call("finish_task", "call_1", "Summary B")>>),
      AIMessage("", <<Call("finish_task", "call_1", ABSENT)>>),
      AIMessage("", <<Call("read_file", "call_1", ABSENT),
                      Call("finish_task", "call_2", "Summary A")>>),
      AIMessage("", <<Call("finish_task", "call_1", "Summary A"),
                      Call("finish_task", "call_2", "Summary B")>>) }

InitScan ==
    /\ messages \in UNION {[1..k -> SCAN_MESSAGES] : k \in 0..MaxConversation}
    /\ next_step = "CODER"
    /\ classification = "CODER"
    /\ node = "END"
    /\ step = 0
    /\ status = "running"
    /\ error = ""
    /\ result = ""
    /\ InitNode
    /\ InitConnector
    /\ InitFile
    /\ InitTools
    /\ InitSan
    /\ git_tools = GIT_SERVER_TOOLS
    /\ task_tools = TASK_SERVER_TOOLS
    /\ InitAdapter
    /\ InitCycle
    /\ cfg = DEFAULT_CONFIG

ScanSpec == InitScan /\ [][ScanResult]_vars

\* system_mappings.py:12-49  the response parser applied to one raw response
ParseResponse ==
    /\ pc = "parser"
    /\ pc' = "parsed"
    /\ LET r == response_parser(raw_tasks) IN
       IF r.outcome = "raised"
       THEN exc' = r.value /\ UNCHANGED task
       ELSE exc' = "" /\ task' = r.value
    /\ UNCHANGED <<cfg, raw_tasks, caught, task_calls>>
    /\ UNCHANGED <<graphVars, nodeVars, toolVars, sanVars, adapterVars, connVars, fileVars>>

\* The cards of the raw responses: one with id, name and desc, one with an id
\* alone.
CARDS == {CARD("card1"), PyDict(<<Pair("id", PyStr(<<"card2">>))>>)}

CardLists == UNION {[1..k -> CARDS] : k \in 0..MaxCards}

\* A list of the board with its cards.
GROUP(cards) ==
    PyDict(<<Pair("name", PyStr(<<"To Do">>)), Pair("cards", PyList(cards))>>)

GroupLists == UNION {[1..k -> {GROUP(c) : c \in CardLists}] : k \in 0..MaxGroups}

\* The raw responses the parser is applied to: a list of cards, a dict with
\* "cards", a dict with "lists" of dicts with "cards"; and responses of no such
\* shape: another dict, a text, None, a list that holds a text, lists of a board
\* without cards or with None for them.
PARSE_INPUTS ==
    {PyList(c) : c \in CardLists}
        \cup {PyDict(<<Pair("id", PyStr(<<"board1">>)), Pair("cards", PyList(c))>>) :
                 c \in CardLists}
        \cup {PyDict(<<Pair("id", PyStr(<<"board1">>)), Pair("lists", PyList(g))>>) :
                 g \in GroupLists}
        \cup { PyDict(<<Pair("id", PyStr(<<"board1">>))>>),
               PyStr(<<"{", "\"lists\": [...]}">>),
               PyNone,
               PyList(<<PyStr(<<"card1">>), CARD("card1")>>),
               PyDict(<<Pair("cards", PyNone),
                        Pair("lists", PyList(<<GROUP(<<CARD("card1")>>)>>))>>),
               PyDict(<<Pair("lists",
                             PyList(<<PyDict(<<Pair("name", PyStr(<<"Done">>))>>),
                                      PyStr(<<"To Do">>),
                                      GROUP(<<CARD("card1")>>)>>))>>),
               PyDict(<<Pair("lists",
                             PyList(<<GROUP(<<CARD("card1")>>),
                                      PyDict(<<Pair("cards", PyNone)>>)>>))>>),
               PyDict(<<Pair("lists",
                             PyList(<<PyDict(<<Pair("cards", PyStr(<<"none">>))>>),
                                      PyDict(<<Pair("cards", CARD("card1"))>>)>>))>>) }

InitParse ==
    /\ InitGraph
    /\ InitNode
    /\ InitConnector
    /\ InitFile
    /\ InitTools
    /\ InitSan
    /\ git_tools = GIT_SERVER_TOOLS
    /\ task_tools = TASK_SERVER_TOOLS
    /\ InitAdapter
    /\ cfg = DEFAULT_CONFIG
    /\ pc = "parser"
    /\ raw_tasks \in PARSE_INPUTS
    /\ task = PyNone
    /\ exc = ""
    /\ caught = ""
    /\ task_calls = <<>>

ParseSpec == InitParse /\ [][ParseResponse]_vars

\* The tasks the TaskApp answers with: up to MaxTasks tasks, each with one of
\* the statuses.
FETCHED ==
    UNION {{[i \in 1..k |-> [id |-> i, status |-> st[i]]] : st \in [1..k -> STATUSES]} :
              k \in 0..MaxTasks}

InitConnectorSpec ==
    /\ InitGraph
    /\ InitNode
    /\ InitTools
    /\ InitSan
    /\ git_tools = GIT_SERVER_TOOLS
    /\ task_tools = TASK_SERVER_TOOLS
    /\ InitAdapter
    /\ InitCycle
    /\ cfg = DEFAULT_CONFIG
    /\ connector = NewConnector
    /\ all_tasks \in FETCHED
    /\ conn_op = NO_CONN_OP
    /\ InitFile

ConnectorSpec == InitConnectorSpec /\ [][ConnectorNext]_vars

\* One call of read_file or write_to_file for every filepath of up to MaxNames
\* names behind up to MaxSlashes slashes, and for what the file system holds
\* at the path the tool builds: nothing, an empty file, a file with text, or
\* a directory (which the directories above the work directory, and the work
\* directory itself, always are).
PATH_NAMES == {"..", ".", "src", "work_dir", "work_dir_evil"}

FILEPATHS ==
    {Path(s, n) : s \in 0..MaxSlashes,
                  n \in UNION {[1..k -> PATH_NAMES] : k \in 0..MaxNames}}

HOLDS(filepath) ==
    LET at == abspath(join(base_dir, lstrip(filepath))).names IN
    IF Len(at) <= Len(base_dir.names) /\ at = SubSeq(base_dir.names, 1, Len(at))
    THEN {"directory"}
    ELSE {"missing", "empty", "text", "directory"}

FILE_CALLS ==
    {FileCall(t, p, h) : t \in {"read_file", "write_to_file"}, p \in FILEPATHS,
                         h \in {"missing", "empty", "text", "directory"}}

InitFileSpec ==
    /\ InitGraph
    /\ InitNode
    /\ InitConnector
    /\ InitTools
    /\ InitSan
    /\ git_tools = GIT_SERVER_TOOLS
    /\ task_tools = TASK_SERVER_TOOLS
    /\ InitAdapter
    /\ InitCycle
    /\ cfg = DEFAULT_CONFIG
    /\ file_op = NO_FILE_OP
    /\ file_call \in {c \in FILE_CALLS : c.holds \in HOLDS(c.filepath)}

FileSpec == InitFileSpec /\ [][FileNext]_vars

\* ================================================================== claims
Running == status = "running"

Stopped == status # "running"

Done == status = "returned" /\ node = "END"

Exhausted == status = "raised" /\ error = "GraphRecursionError"

LastMessage == messages[Len(messages)]

\* C1: every execution stops, at DONE or by exhaustion of the step bound, after
\* at most recursion_limit state transitions; none runs forever.
C1_Terminates ==
    /\ <>Stopped
    /\ [](Stopped => Done \/ Exhausted)
    /\ [](step <= recursion_limit)

\* C1: an execution that was stopped by the step bound.
C1_Witness == Exhausted /\ step = recursion_limit /\ Len(messages) >= recursion_limit

\* C2 (as claimed): when the step bound is exhausted the orchestrator has taken
\* exactly recursion_limit transitions and process_task_with_langgraph returns
\* the "no summary" sentinel.
C2_ExhaustionReturnsSentinel ==
    (Stopped /\ ~Done) =>
        /\ step = recursion_limit
        /\ status = "returned"
        /\ result = NO_SUMMARY

\* C3: an execution is at DONE only if the last message of the conversation is
\* a ModelTurn with a finish_task invocation.
C3_DoneOnlyByFinish ==
    (node = "END" \/ status = "returned") =>
        /\ LastMessage.type = "ai"
        /\ HasFinish(LastMessage.tool_calls)

\* C3: an execution that reached DONE on a finish_task of the model.
C3_Witness == Done /\ result = MODEL_SUMMARY /\ step >= 4

\* The n messages after the ModelTurn at i are the results of its n
\* invocations, in order, and no further result follows them.
ResultsFollow(msgs, i) ==
    LET calls == msgs[i].tool_calls
        n == Len(calls)
    IN  /\ i + n <= Len(msgs)
        /\ \A k \in 1..n :
              /\ msgs[i + k].type = "tool"
              /\ msgs[i + k].tool_call_id = calls[k].id
        /\ (i + n < Len(msgs) => msgs[i + n + 1].type # "tool")

\* C4: after a Tool Execution step the ToolResults in the conversation are
\* exactly one per invocation of the ModelTurn before them, in the order of the
\* invocations and each with the id of the invocation at its position.
C4_ToolResultsMatch ==
    \A i \in 1..Len(messages) :
        /\ (messages[i].type = "ai" /\ i < Len(messages)) => ResultsFollow(messages, i)
        /\ messages[i].type = "tool" =>
              \E j \in 1..(i - 1) :
                  /\ messages[j].type = "ai"
                  /\ i - j <= Len(messages[j].tool_calls)

\* C4: a turn with two invocations whose two results were appended.
C4_Witness ==
    \E i \in 1..Len(messages) :
        /\ messages[i].type = "ai"
        /\ Len(messages[i].tool_calls) = 2
        /\ i + 2 <= Len(messages)
        /\ messages[i + 2].type = "tool"

\* Every invocation of every ModelTurn of the conversation has its result.
Answered(msgs) ==
    \A i \in 1..Len(msgs) :
        (msgs[i].type = "ai" /\ msgs[i].tool_calls # <<>>) =>
            LET calls == msgs[i].tool_calls IN
            /\ i + Len(calls) <= Len(msgs)
            /\ \A k \in 1..Len(calls) :
                  /\ msgs[i + k].type = "tool"
                  /\ msgs[i + k].tool_call_id = calls[k].id

\* C5: while a specialist is due or running (the only place a model turn is
\* requested) every invocation in the conversation has its result; and after
\* a turn with invocations, none terminal, the node that runs is TOOLS.
C5_ResultsBeforeNextTurn ==
    /\ (Running /\ node \in Specialists) => Answered(messages)
    /\ (Running /\ LastMessage.type = "ai" /\ LastMessage.tool_calls # <<>>
            /\ ~HasFinish(LastMessage.tool_calls)) => node = "tools"

\* C5: a specialist is about to request a turn right after TOOLS appended the
\* results of its previous turn.
C5_Witness ==
    /\ Running
    /\ node \in Specialists
    /\ returned = NONE
    /\ LastMessage.type = "tool"
    /\ step < recursion_limit

AllEmpty(log) == \A i \in DOMAIN log : log[i].outcome = "empty"

\* C6: a turn in which every backend call came back degenerate makes exactly 3
\* calls and then returns the StuckTask turn; the fallback never comes after
\* fewer than 3 calls and there is no 4th call.
C6_StuckAtThirdAttempt ==
    /\ Len(llm_calls) <= 3
    /\ (llm_calls # <<>> /\ AllEmpty(llm_calls)) =>
          returned = (IF Len(llm_calls) = 3 THEN STUCK ELSE NONE)
    /\ returned = STUCK => Len(llm_calls) = 3

\* C6: the fallback turn after three degenerate responses.
C6_Witness == returned = STUCK /\ AllEmpty(llm_calls) /\ Len(llm_calls) = 3

HasTextOrCalls(m) == m.content # "" \/ m.tool_calls # <<>>

\* C7: every ModelTurn a specialist returns, and so every ModelTurn of the
\* conversation, carries text or at least one invocation.
C7_NoEmptyTurn ==
    /\ returned # NONE => HasTextOrCalls(returned)
    /\ \A i \in 1..Len(messages) : messages[i].type = "ai" => HasTextOrCalls(messages[i])

\* C7: a turn returned after a degenerate response was retried.
C7_Witness ==
    /\ returned # NONE
    /\ returned # STUCK
    /\ Len(llm_calls) >= 2
    /\ llm_calls[1].outcome = "empty"
    /\ node = "coder"

\* What the specification calls a valid name: only letters, digits, underscore
\* and hyphen, at least one, at most 64.
ValidName(name) ==
    /\ Len(Chars(name)) = 1
    /\ Chars(name)[1].c = "id"
    /\ StrLen(name) <= 64

AllNamesValid(m) == \A i \in DOMAIN m.tool_calls : ValidName(m.tool_calls[i].name)

\* C8 (as claimed): every ModelTurn a specialist returns, and every ModelTurn
\* the orchestrator inspects, holds only invocations with valid names.
C8_ReturnedTurnsSanitized ==
    /\ returned # NONE => AllNamesValid(returned)
    /\ \A i \in 1..Len(messages) : messages[i].type = "ai" => AllNamesValid(messages[i])

RECURSIVE KeepValid(_)
KeepValid(calls) ==
    IF calls = <<>> THEN <<>>
    ELSE IF ValidName(Head(calls).name)
         THEN <<Head(calls)>> \o KeepValid(Tail(calls))
         ELSE KeepValid(Tail(calls))

\* C9 (as claimed): sanitize_response keeps exactly the invocations with a
\* valid name (a name of 64 valid characters included), in their order, and
\* leaves the text as it was.
C9_KeepsExactlyValidNames ==
    sanitized # NONE =>
        /\ sanitized.tool_calls = KeepValid(response.tool_calls)
        /\ sanitized.content = response.content
        /\ sanitized.type = response.type

\* Capabilities with a mutating effect: file write, branch creation, push,
\* pull request (worker.py:63-68), staging and commit (prompts.py:58) and the
\* writes to the task board (worker.py:239, 252).
MUTATING ==
    write_tools \cup {"git_add", "git_commit", "add_comment_to_card", "move_card_to_list"}

\* C10 (as claimed): the capability set bound to the analyst node holds no
\* capability with a mutating effect, whatever the servers announced.
C10_AnalystBindsNoMutation ==
    bound => analyst_tools \cap MUTATING = {}

\* ---------------------------------------------------------------- routing
\* The spellings of a role name that differ in case only.
Spellings(role) ==
    CASE role = "coder" -> {"CODER", "coder", "Coder"}
      [] role = "bugfixer" -> {"BUGFIXER", "bugfixer", "BugFixer"}
      [] role = "analyst" -> {"ANALYST", "analyst", "Analyst"}

NamesARole(ns) == \E role \in Specialists : ns \in Spellings(role)

Routed == step = 1 /\ classification = NOT_CLASSIFIED

\* C11: behind the router the execution is in exactly one of the three roles:
\* the one the classification names, in any case, and the coder for every
\* other value, the empty and the missing one included.
C11_RouterPicksRole ==
    Routed =>
        /\ status = "running"
        /\ node \in Specialists
        /\ \A role \in Specialists : next_step \in Spellings(role) => node = role
        /\ ~NamesARole(next_step) => node = "coder"

\* C11: a state without the key was routed to the coder.
C11_Witness == Routed /\ next_step = ABSENT /\ node = "coder"

\* The role the router selected, read off the answer it classified.
Originating ==
    CASE classification = "BUGFIXER" -> "bugfixer"
      [] classification = "ANALYST" -> "analyst"
      [] OTHER -> "coder"

Invoked == op.name = "tool_func"

PeerFlagged == op.peer.kind = "result" /\ op.peer.isError

PeerSucceeded == op.peer.kind = "result" /\ ~op.peer.isError

NoAnswer == op.peer.kind \in {"raises", "not called"}

Shown(b) == IF b.type = "text" THEN b.text ELSE <<"[", b.type, " content]">>

\* The blocks 1..i of a result, or the text blocks among them, one per line.
RECURSIVE LinesUpTo(_, _, _)
LinesUpTo(content, i, textOnly) ==
    IF i = 0 THEN [n |-> 0, text |-> <<>>]
    ELSE LET before == LinesUpTo(content, i - 1, textOnly) IN
         IF textOnly /\ content[i].type # "text" THEN before
         ELSE [n |-> before.n + 1,
               text |-> before.text \o (IF before.n = 0 THEN <<>> ELSE <<"\n">>)
                            \o Shown(content[i])]

Canonical == <<"Tool ", op.tool, " executed successfully.">>

OrCanonical(t) == IF \E i \in 1..Len(t) : t[i] \notin {" ", "\n"} THEN t ELSE Canonical

\* C15 as stated: the text of a successful invocation is the text-typed blocks
\* of the result alone, in order; without text it is the canonical text.
C15_TextBlocksOnly ==
    Invoked /\ PeerSucceeded =>
        op.value.text =
            OrCanonical(LinesUpTo(op.peer.content, Len(op.peer.content), TRUE).text)

\* C15: the text of a successful invocation is the blocks of the result in
\* order, one per line, a text block by its text and any other block by
\* '[<type> content]'; when that holds white space only, or there is no
\* block, it is the canonical text.
C15_BlocksInOrder ==
    Invoked /\ PeerSucceeded =>
        op.value.text =
            OrCanonical(LinesUpTo(op.peer.content, Len(op.peer.content), FALSE).text)

\* C15: a result of an image block and a text block was rendered.
C15_Witness ==
    /\ Invoked
    /\ PeerSucceeded
    /\ op.peer.content = <<Block("image", <<>>), Block("text", <<"line one">>)>>
    /\ op.outcome = "returned"

StartupFailed == op.name = "__aenter__" /\ op.outcome = "raised"

\* C16: when __aenter__ fails, at whatever stage, every context it entered
\* has been exited when the failure is raised, and the failure is a startup
\* failure that names the command of the server.
C16_StartupFailureReleases ==
    StartupFailed =>
        LET a == mcp[op.client] IN
        /\ a.exit_stack = <<>>
        /\ Len(a.closed) = Len(a.entered)
        /\ \A i \in 1..Len(a.entered) : \E j \in 1..Len(a.closed) : a.closed[j] = a.entered[i]
        /\ op.value.kind = "RuntimeError"
        /\ SubSeq(op.value.text, 1, 3) = <<"Failed to start MCP Server (", a.command, "): ">>

\* C16: the handshake failed after the process and the session were acquired.
C16_Witness ==
    /\ StartupFailed
    /\ mcp[op.client].entered = <<"stdio_client", "ClientSession">>
    /\ mcp[op.client].closed = <<"ClientSession", "stdio_client">>

\* ------------------------------------------------------------- agent cycle
CycleOver == pc = "done"

Released(a) ==
    /\ a.exit_stack = <<>>
    /\ Len(a.closed) = Len(a.entered)
    /\ \A i \in 1..Len(a.entered) : \E j \in 1..Len(a.closed) : a.closed[j] = a.entered[i]

AcquiredOnce(a) ==
    \A i, j \in 1..Len(a.entered) : a.entered[i] = a.entered[j] => i = j

\* C17: in a cycle the process and the session of each capability server are
\* acquired at most once, whatever the number of calls, and when the cycle is
\* over, by whatever path, every one that was acquired has been released.
C17_SessionsReleased ==
    /\ \A m \in MCP_CLIENTS : AcquiredOnce(mcp[m])
    /\ CycleOver => \A m \in MCP_CLIENTS : Released(mcp[m])

\* C17: the task server failed its handshake after the git server had
\* started; both were released when the cycle was over.
C17_Witness ==
    /\ CycleOver
    /\ mcp["git_mcp"].phase = "exited"
    /\ mcp["git_mcp"].closed = <<"ClientSession", "stdio_client">>
    /\ mcp["task_mcp"].phase = "failed"
    /\ mcp["task_mcp"].closed = <<"ClientSession", "stdio_client">>

FailureComment(c) ==
    c.tool = "add_comment_to_card" /\ c.outcome = "returned" /\ Head(c.text) = CRASHED

SuccessComment(c) ==
    c.tool = "add_comment_to_card" /\ c.outcome = "returned" /\ Head(c.text) # CRASHED

\* C18 as stated: a cycle that took open tasks from the poll and failed with
\* an exception while it processed them has recorded a failure comment, no
\* success comment, and has not moved the task to review.
C18_FailureCommentRecorded ==
    CycleOver /\ Truthy(raw_tasks) /\ caught # "" =>
        /\ \E i \in 1..Len(task_calls) : FailureComment(task_calls[i])
        /\ \A i \in 1..Len(task_calls) :
              ~SuccessComment(task_calls[i]) /\ task_calls[i].tool # "move_card_to_list"

\* The statements behind line 236 of worker.py never run.
NeverStarted == pc # "started"

\* ------------------------------------------------------------ result scan
\* The turns of the conversation that hold a finish_task invocation.
FinishTurns ==
    {i \in 1..Len(messages) :
        messages[i].type = "ai"
        /\ \E k \in 1..Len(messages[i].tool_calls) :
              messages[i].tool_calls[k].name = "finish_task"}

Latest(S) == CHOOSE i \in S : \A j \in S : j <= i

\* The finish_task invocation of a turn, the first one if the turn holds two.
FinishOf(m) ==
    m.tool_calls[CHOOSE k \in 1..Len(m.tool_calls) :
                    /\ m.tool_calls[k].name = "finish_task"
                    /\ \A h \in 1..(k - 1) : m.tool_calls[h].name # "finish_task"]

C20_ResultTruncated ==
    status = "returned" => len(result) <= 4000 + 100

\* ------------------------------------------------------- response parser
Parsed == pc = "parsed"

AllDicts(items) == \A i \in 1..Len(items) : items[i].py = "dict"

\* A bare list of items.
BareList(d) == d.py = "list" /\ AllDicts(d.items)

\* An object with the items under "cards".
FlatObject(d) ==
    /\ Has(d, "cards")
    /\ Get(d, "cards").py = "list"
    /\ AllDicts(Get(d, "cards").items)

\* An object whose items are spread over the groups under "lists", each with
\* its items under "cards".
NestedObject(d) ==
    /\ d.py = "dict"
    /\ ~Has(d, "cards")
    /\ Has(d, "lists")
    /\ Get(d, "lists").py = "list"
    /\ \A g \in 1..Len(Get(d, "lists").items) :
          LET group == Get(d, "lists").items[g] IN
          /\ Has(group, "cards")
          /\ Get(group, "cards").py = "list"
          /\ AllDicts(Get(group, "cards").items)

CardsOf(d, g) == Get(Get(d, "lists").items[g], "cards").items

\* The number of items in the groups before group g.
RECURSIVE Before(_, _)
Before(d, g) == IF g = 1 THEN 0 ELSE Before(d, g - 1) + Len(CardsOf(d, g - 1))

\* t is the canonical Task of the item.
TaskOf(t, item) ==
    /\ t.py = "dict"
    /\ Len(t.items) = 3
    /\ Has(t, "id") /\ Get(t, "id") = Get(item, "id")
    /\ Has(t, "title") /\ Get(t, "title") = Get(item, "name")
    /\ Has(t, "description") /\ Get(t, "description") = Get(item, "desc")

\* C21: the parser raises on none of the three shapes and returns one
\* canonical Task per item, with id, title and description from id, name and
\* desc; the items of a nested object come group by group in the order of the
\* groups, and in their order within a group.
C21_ParsesThreeShapes ==
    Parsed =>
        /\ (BareList(raw_tasks) \/ FlatObject(raw_tasks) \/ NestedObject(raw_tasks)) =>
              exc = "" /\ task.py = "list"
        /\ BareList(raw_tasks) =>
              /\ Len(task.items) = Len(raw_tasks.items)
              /\ \A i \in 1..Len(raw_tasks.items) : TaskOf(task.items[i], raw_tasks.items[i])
        /\ FlatObject(raw_tasks) =>
              LET items == Get(raw_tasks, "cards").items IN
              /\ Len(task.items) = Len(items)
              /\ \A i \in 1..Len(items) : TaskOf(task.items[i], items[i])
        /\ NestedObject(raw_tasks) =>
              LET n == Len(Get(raw_tasks, "lists").items) IN
              /\ Len(task.items) = Before(raw_tasks, n + 1)
              /\ \A g \in 1..n : \A k \in 1..Len(CardsOf(raw_tasks, g)) :
                    TaskOf(task.items[Before(raw_tasks, g) + k], CardsOf(raw_tasks, g)[k])

\* C21: a nested object of two groups with different items was parsed.
C21_Witness ==
    /\ Parsed
    /\ NestedObject(raw_tasks)
    /\ Len(Get(raw_tasks, "lists").items) = 2
    /\ CardsOf(raw_tasks, 1) = <<CARD("card1")>>
    /\ Len(CardsOf(raw_tasks, 2)) = 2
    /\ CardsOf(raw_tasks, 2)[1] # CARD("card1")
    /\ Len(task.items) = 3

\* ------------------------------------------------------------ retry ladder
\* The attempts of the turn in progress before attempt i that came back with
\* neither text nor invocations.
EmptyBefore(i) == {j \in 1..(i - 1) : llm_calls[j].outcome = "empty"}

\* C22 as stated: the invocation mode is "auto" on every attempt but the final
\* one, and every retry behind a degenerate response has one more forcing
\* directive in the messages sent to the model.
C22_MandatoryOnlyOnFinalAttempt ==
    \A i \in 1..Len(llm_calls) :
        /\ i < MAX_ATTEMPTS => llm_calls[i].tool_choice = "auto"
        /\ (i > 1 /\ llm_calls[i - 1].outcome = "empty") =>
              llm_calls[i].extra = llm_calls[i - 1].extra + 1

\* C22: the invocation mode of an attempt is "auto" as long as no attempt of
\* the turn came back degenerate, and "any" (mandatory) on every attempt
\* behind the first degenerate response, the second attempt included; a
\* backend call that raised changes neither the mode nor the messages; the
\* messages sent to the model hold one forcing directive per degenerate
\* response so far.
C22_MandatoryAfterDegenerate ==
    \A i \in 1..Len(llm_calls) :
        /\ llm_calls[i].tool_choice = (IF EmptyBefore(i) = {} THEN "auto" ELSE "any")
        /\ llm_calls[i].extra = Cardinality(EmptyBefore(i))

\* C22: the second attempt ran in mode "any" behind a degenerate response, and
\* the third behind an exception kept the mode.
C22_Witness ==
    /\ Len(llm_calls) = 3
    /\ llm_calls[1].outcome = "empty"
    /\ llm_calls[2].tool_choice = "any"
    /\ llm_calls[2].outcome = "raised"
    /\ llm_calls[3].tool_choice = "any"
    /\ llm_calls[3].extra = 1

\* --------------------------------------------------------- transition table
\* The table of section 4.6 of the specification, as pairs of nodes.
TRANSITION_TABLE ==
    {<<"router", role>> : role \in Specialists}
        \cup (Specialists \X {"END", "tools", "correction"})
        \cup {<<"tools", role>> : role \in Specialists}
        \cup {<<"correction", role>> : role \in Specialists}

Entered == status = "running" /\ node \in Specialists /\ llm_calls = <<>> /\ returned = NONE

\* C24: a specialist node that is entered, from the router, from the tools
\* node or from the correction node, has its 3 attempts before it and the mode
\* "auto", whatever happened earlier in the execution: its first backend call
\* runs in mode "auto" without forcing directive.
C24_FullBudgetOnEntry ==
    /\ Entered =>
          /\ MAX_ATTEMPTS - attempt = 3
          /\ current_tool_choice = "auto"
          /\ extra = 0
    /\ llm_calls # <<>> =>
          /\ llm_calls[1].tool_choice = "auto"
          /\ llm_calls[1].extra = 0
    /\ attempt + (IF returned \notin {NONE, STUCK} THEN 1 ELSE 0) = Len(llm_calls)

\* C24: behind the correction node the specialist made all 3 attempts.
C24_Witness ==
    /\ LastMessage = HumanMessage(DIRECTIVE)
    /\ node \in Specialists
    /\ Len(llm_calls) = 3
    /\ llm_calls[1].tool_choice = "auto"
    /\ returned = STUCK

\* ------------------------------------------------------------ conversation
\* C25: every step of an execution (the router, a backend call of a specialist
\* and its retries, the return of a specialist, the tools node, the correction
\* node, the stop at the step bound) leaves the messages of the conversation as
\* they are and where they are, and adds messages at its end only.
C25_AppendOnly ==
    [][/\ Len(messages') >= Len(messages)
       /\ SubSeq(messages', 1, Len(messages)) = messages]_vars

\* C25: a conversation that grew by a turn, its result, a second turn and the
\* directive of the correction node.
C25_Witness ==
    /\ Len(messages) = 5
    /\ messages[1] = HumanMessage(TASK_MESSAGE)
    /\ messages[2].type = "ai"
    /\ messages[3].type = "tool"
    /\ messages[4].type = "ai"
    /\ messages[5] = HumanMessage(DIRECTIVE)

\* ------------------------------------------------------- the polled task
\* The response parser yields at least one Task from the value.
YieldsTask(v) ==
    /\ response_parser(v).outcome = "returned"
    /\ response_parser(v).value.items # <<>>

FinalComment(c) == c.tool = "add_comment_to_card" /\ c.outcome = "returned"

\* C26 as stated: a cycle whose poll returned a raw response from which the
\* parser yields at least one Task has, when it is over, run the orchestrator
\* on a Task of that list and recorded a final comment under its id.
C26_TaskProcessed ==
    (CycleOver /\ Truthy(raw_tasks) /\ YieldsTask(raw_tasks)) =>
        /\ task.py = "dict"
        /\ \E i \in 1..Len(response_parser(raw_tasks).value.items) :
              response_parser(raw_tasks).value.items[i] = task
        /\ \E i \in 1..Len(task_calls) : FinalComment(task_calls[i])

\* ----------------------------------------------------------- task connector
Fetched == conn_op.name = "get_open_tasks"

\* The login or the request for the tasks was made and failed.
LoginFailed == conn_op.login \notin {"", "ok"} \/ conn_op.me \notin {"", "ok"}

FetchFailed == conn_op.fetch = "RequestException"

\* The status is 'open' in any case.
IsOpen(t) == t.status \in {"open", "OPEN", "Open"}

HasNull(tasks) == \E i \in 1..Len(tasks) : tasks[i].status = NULL

\* C27 as stated: get_open_tasks never raises; it returns None when the login
\* or the request fails and otherwise the fetched tasks whose status is 'open'
\* in any case, in their order, whatever the statuses of the fetched tasks, a
\* missing and a null one included; it logs in first if and only if the token
\* or the user id is not set.
C27_NeverRaises ==
    Fetched =>
        /\ conn_op.outcome = "returned"
        /\ (LoginFailed \/ FetchFailed) => conn_op.value = NO_VALUE
        /\ ~(LoginFailed \/ FetchFailed) => conn_op.value = SelectSeq(all_tasks, IsOpen)
        /\ conn_op.login # "" <=>
              (conn_op.before.access_token = NO_VALUE \/ conn_op.before.user_id = NO_VALUE)

\* The same for the fetched lists that hold no task with a null status.
GetOpenTasksWithoutNull == ~HasNull(all_tasks) => C27_NeverRaises

\* ------------------------------------------------------------ skipped cycle
NoRow == cfg.config = "none"

Inactive == cfg.config = "inactive"

UndefinedSystem == cfg.system # "TRELLO"

HasStored == cfg.stored.payload # ""

\* Decryption of the stored configuration does not succeed: the process has
\* no key, or the stored text is not a token of its key.
CannotDecrypt == HasStored /\ (~cfg.key \/ cfg.stored.encrypted # "key")

\* The stored configuration is decrypted and is no JSON.
CannotParse == HasStored /\ cfg.key /\ cfg.stored.encrypted = "key" /\ cfg.stored.payload = "not json"

\* No session was acquired, no poll made, no comment or status written.
NoEffect ==
    /\ \A m \in MCP_CLIENTS : mcp[m].entered = <<>> /\ mcp[m].phase = "new"
    /\ task_calls = <<>>
    /\ pc \in {"start", "done"}

\* The poll returned and its value holds no open task.
PolledNothing ==
    /\ \E i \in 1..Len(task_calls) :
          task_calls[i].tool = "read_board" /\ task_calls[i].outcome = "returned"
    /\ ~Truthy(raw_tasks)

NoExecutionNoComment ==
    /\ pc # "started"
    /\ task = PyNone
    /\ \A i \in 1..Len(task_calls) : task_calls[i].tool = "read_board"

\* C28 as stated: a cycle that finds no configuration, an inactive agent, an
\* undefined task system, or a configuration that cannot be decrypted or
\* parsed acquires no session, polls nothing and writes nothing; a cycle whose
\* poll returns no open task runs no execution and writes no comment.
C28_SkippedCycleNoEffect ==
    /\ (NoRow \/ Inactive \/ UndefinedSystem \/ CannotDecrypt \/ CannotParse) => NoEffect
    /\ PolledNothing => NoExecutionNoComment

\* The text json.loads is given is no JSON: what was decrypted, or, when the
\* process has a key and decryption fails, the stored text itself.
NotJson == HasStored /\ cfg.key /\ decrypted_json(cfg.stored) \notin {"{ids}", "{}"}

\* C28: a cycle that finds no configuration, an inactive agent, an undefined
\* task system, a stored configuration and no key in the process, or a text
\* that is no JSON (the decrypted one, or the stored one when decryption
\* fails) acquires no session, polls nothing and writes nothing; a stored text
\* that cannot be decrypted and is JSON is used as it is.  A cycle whose poll
\* returns no open task runs no execution and writes no comment.
C28_SkippedWithoutKeyOrJson ==
    /\ (NoRow \/ Inactive \/ UndefinedSystem \/ (HasStored /\ ~cfg.key) \/ NotJson) => NoEffect
    /\ PolledNothing => NoExecutionNoComment

\* C28: the cycle of an active agent with a stored configuration and no key is
\* over.
C28_Witness ==
    /\ CycleOver
    /\ cfg.config = "active"
    /\ cfg.system = "TRELLO"
    /\ HasStored
    /\ ~cfg.key
    /\ cfg.repo = "ok"
    /\ NoEffect

\* ------------------------------------------------------- analyst and tools
\* The capabilities the claim names: file write, branch creation, push, pull
\* request and commit.
MUTATING_NAMED == write_tools \cup {"git_commit"}

\* The tools node ran invocation k of the turn at i: its result is the
\* capability's, not the error text for a name the node does not know.
Ran(i, k) ==
    /\ i + k <= Len(messages)
    /\ messages[i + k].type = "tool"
    /\ messages[i + k].tool_call_id = messages[i].tool_calls[k].id
    /\ messages[i + k].content = "ok"

\* C29 as stated: while the role is the analyst, the tools node runs no
\* capability with a mutating effect, also when a turn of the model names one.
C29_AnalystRunsNoMutation ==
    next_step = "ANALYST" =>
        \A i \in 1..Len(messages) :
            messages[i].type = "ai" =>
                \A k \in 1..Len(messages[i].tool_calls) :
                    messages[i].tool_calls[k].name \in MUTATING_NAMED => ~Ran(i, k)

\* ------------------------------------------------- finish among invocations
NamesFinish(m) ==
    m.type = "ai" /\ \E k \in 1..Len(m.tool_calls) : m.tool_calls[k].name = "finish_task"

\* C30: a turn that holds a finish_task invocation, alone or with other
\* invocations before or behind it, is the last message of the conversation
\* and the execution is at DONE: no invocation of that turn has a result.
C30_FinishEndsWithoutTools ==
    \A i \in 1..Len(messages) :
        NamesFinish(messages[i]) =>
            /\ i = Len(messages)
            /\ node = "END"
            /\ status = "returned"

\* C30: an execution ended on a turn whose first invocation is finish_task and
\* whose second is another capability.
C30_Witness ==
    /\ Done
    /\ Len(LastMessage.tool_calls) = 2
    /\ LastMessage.tool_calls[1].name = "finish_task"
    /\ LastMessage.tool_calls[2].name = "read_file"

\* ------------------------------------------------------- frame of one turn
\* The messages that exist only in the list a specialist node sends to the
\* backend.
HIDDEN == {SystemMessage(SYS_MSG), AIMessage(READY, <<>>), HumanMessage(FORCE)}

\* C31: a step that ends a specialist turn puts exactly one message behind
\* the conversation, the turn the node returned, however many backend calls
\* the turn made, and the backend calls themselves leave the conversation as
\* it is; no message of the conversation is the system instruction, the
\* synthetic 'ready to write the code' turn or a forcing directive, so that
\* every backend call sees its own system instruction, the conversation
\* without any of them, and the forcing pairs of its own turn only.
C31_OneMessagePerTurn ==
    /\ [][(node \in Specialists) =>
             (IF step' # step
              THEN returned # NONE /\ messages' = Append(messages, returned)
              ELSE messages' = messages)]_vars
    /\ [](\A i \in DOMAIN messages : messages[i] \notin HIDDEN)
    /\ [](\A k \in DOMAIN llm_calls :
             /\ llm_calls[k].input =
                    <<SystemMessage(SYS_MSG)>> \o messages \o forcing(llm_calls[k].extra)
             /\ llm_calls[k].extra <= k - 1)

\* C31: behind a turn and the result of its invocation, a second turn made
\* three backend calls and added the fallback turn, one message.
C31_Witness ==
    /\ status = "returned"
    /\ Len(messages) = 4
    /\ messages[2].type = "ai"
    /\ messages[3].type = "tool"
    /\ messages[4] = STUCK

\* ------------------------------------------------------- backend exceptions
AllRaised(log) == \A i \in DOMAIN log : log[i].outcome = "raised"

\* C32: a backend call that raises is one of the 3 attempts of the turn and is
\* caught inside the node: the execution is still running behind it and has
\* raised nothing; a turn in which every backend call raised makes exactly 3
\* calls and then returns the StuckTask turn; and the attempt behind a call
\* that raised runs in the mode, and with the messages, of the call that raised.
C32_RaisedCallIsAnAttempt ==
    /\ \A i \in DOMAIN llm_calls :
          llm_calls[i].outcome = "raised" =>
              /\ attempt >= i
              /\ status = "running"
              /\ error = ""
              /\ i < Len(llm_calls) =>
                    /\ llm_calls[i + 1].tool_choice = llm_calls[i].tool_choice
                    /\ llm_calls[i + 1].input = llm_calls[i].input
    /\ (llm_calls # <<>> /\ AllRaised(llm_calls)) =>
          /\ Len(llm_calls) <= MAX_ATTEMPTS
          /\ attempt = Len(llm_calls)
          /\ returned = (IF Len(llm_calls) = MAX_ATTEMPTS THEN STUCK ELSE NONE)

\* C32: the backend raised on all three calls of a turn, each made in mode
\* "auto", and the node returned the fallback turn.
C32_Witness ==
    /\ Len(llm_calls) = 3
    /\ AllRaised(llm_calls)
    /\ llm_calls[3].tool_choice = "auto"
    /\ returned = STUCK
    /\ status = "running"

\* ------------------------------------------------- the report of the cycle
\* The poll of the cycle returned a response that holds a task.
PickedTask == Truthy(raw_tasks) /\ YieldsTask(raw_tasks)

\* worker.py:241  the comment written before the execution
StartedComment(c) ==
    c.tool = "add_comment_to_card" /\ c.text = <<"Agent processing started...">>

\* worker.py:250  sys_config.get("trello_review_list_id")
ReviewConfigured == sys_config(cfg).value = "{ids}"

\* What the except clause of worker.py:254 catches when the execution or a
\* call of the task server raised.
REPORTED_ERRORS == {"GraphRecursionError", KEY_ERROR, "RuntimeError"}

\* C33 as stated: an execution that ends through the StuckTask fallback raises
\* nothing, so a cycle that picked a task and caught no exception of the
\* execution or of the task server has, when it is over, reported a success:
\* the success comment is recorded (its summary, 'Agent stuck.', is all that
\* tells the stuck execution from a completed one), no failure comment is,
\* and the task was moved to review when a review status is configured.
C33_StuckReportedAsSuccess ==
    (CycleOver /\ PickedTask /\ caught \notin REPORTED_ERRORS) =>
        /\ \E i \in 1..Len(task_calls) : SuccessComment(task_calls[i])
        /\ \A i \in 1..Len(task_calls) : ~FailureComment(task_calls[i])
        /\ ReviewConfigured =>
              \E i \in 1..Len(task_calls) : task_calls[i].tool = "move_card_to_list"

\* C34 as stated: a cycle that picked a task and whose calls of the task
\* server all succeeded has recorded the 'processing started' comment first
\* (before the execution, so before any backend call), then the review
\* transition if there is one, and as its last call exactly one final comment,
\* the success comment or the failure comment.
C34_OneFinalCommentInOrder ==
    (CycleOver /\ PickedTask
        /\ \A i \in 1..Len(task_calls) : task_calls[i].outcome = "returned") =>
        \E s, f \in 1..Len(task_calls) :
            /\ s < f
            /\ f = Len(task_calls)
            /\ StartedComment(task_calls[s])
            /\ SuccessComment(task_calls[f]) \/ FailureComment(task_calls[f])
            /\ \A j \in 1..Len(task_calls) :
                  /\ task_calls[j].tool = "add_comment_to_card" => j \in {s, f}
                  /\ task_calls[j].tool = "move_card_to_list" => s < j /\ j < f

\* ------------------------------------------------- the adapter's session
\* The last call was get_langchain_tools or call_tool.
Asked == op.name \in {"get_langchain_tools", "call_tool"}

\* The client is connected: __aenter__ returned and __aexit__ has not run.
Connected(m) == mcp[m].phase = "entered"

\* C35 as stated: get_langchain_tools and call_tool on a client that is not
\* connected (never entered, entered with a failure, or exited) raise the
\* 'session not started' failure, and the request does not reach a session.
C35_RejectedWhenNotConnected ==
    (Asked /\ ~Connected(op.client)) =>
        /\ op.outcome = "raised"
        /\ op.value = RuntimeError(<<NOT_STARTED>>)
        /\ op.peer = NOT_CALLED

\* What does hold: the calls are rejected as long as no session object was
\* ever stored in the client.
RejectedWithoutSession ==
    (Asked /\ mcp[op.client].session = "None") =>
        /\ op.outcome = "raised"
        /\ op.value = RuntimeError(<<NOT_STARTED>>)
        /\ op.peer = NOT_CALLED

\* --------------------------------------------------------- confinement
\* The file or directory a path names, without symbolic links, is the work
\* directory or lies below it.
Inside(p) ==
    LET at == abspath(p).names IN
    /\ Len(at) >= Len(base_dir.names)
    /\ SubSeq(at, 1, Len(base_dir.names)) = base_dir.names

\* C36 as stated: a call of read_file or write_to_file, whatever its filepath
\* (leading slashes and '..' names included), either returns 'ERROR: Access
\* denied.' and has handed no path to open() or to os.makedirs(), or every
\* path it handed to them is the work directory /app/work_dir or lies below it.
C36_StaysInsideWorkDir ==
    file_op # NO_FILE_OP =>
        IF file_op.value = "ERROR: Access denied."
        THEN file_op.opened = NO_PATH /\ file_op.made = NO_PATH
        ELSE /\ file_op.opened # NO_PATH => Inside(file_op.opened)
             /\ file_op.made # NO_PATH => Inside(file_op.made)

\* What does hold: no call opens a file outside the directory /app; a call
\* whose filepath has no name that begins with the name of the work directory
\* opens no file outside the work directory; and the directory handed to
\* os.makedirs() is then inside it or is /app, which exists.
OpensInsideOrBesideWorkDir ==
    file_op # NO_FILE_OP =>
        /\ file_op.opened # NO_PATH =>
              /\ abspath(file_op.opened).names # <<>>
              /\ abspath(file_op.opened).names[1] = "app"
        /\ (\A i \in DOMAIN file_call.filepath.names :
                file_call.filepath.names[i] # "work_dir_evil") =>
              /\ file_op.opened # NO_PATH => Inside(file_op.opened)
              /\ file_op.made # NO_PATH =>
                    Inside(file_op.made) \/ abspath(file_op.made).names = <<"app">>

====
